---- MODULE Spec2Model ----
(***************************************************************************)
(* State-machine model of the detrack-node-contract (CosmWasm): the node   *)
(* registry with its tiered stake/deposit lifecycle, the deposit unlock    *)
(* ledger and the proof ledger with its hash, worker and gateway indexes.  *)
(* Every execute handler of src/src/execute.rs is one action; the queries  *)
(* of src/src/query.rs are operators over the state.                       *)
(***************************************************************************)
EXTENDS Integers, Sequences, FiniteSets, TLC

VARIABLES
    CONFIG,          \* CONFIG: Item<Config>
    WHITELISTED_NODES,           \* WHITELISTED_NODES: Map<String, Node>
    UNLOCKING_DEPOSITS,       \* UNLOCKING_DEPOSITS: Map<String, UnlockingDeposit>
    proofs,          \* proofs(): IndexedMap<u64, Proof> (primary map)
    proofs__worker,   \* proofs().idx.worker: MultiIndex (worker_did, id)
    PROOF_BY_HASH,   \* PROOF_BY_HASH: Map<&str, u64>
    GATEWAY_PROOFS,  \* GATEWAY_PROOFS: Map<(&str, u64), ()>
    height,          \* env.block.height of the block being executed
    last,            \* response of the latest call that returned Ok
    steps,           \* calls that returned Ok and blocks passed so far
    bank             \* designated-denomination coins moved by the calls that returned Ok

vars == <<CONFIG, WHITELISTED_NODES, UNLOCKING_DEPOSITS, proofs, proofs__worker, PROOF_BY_HASH,
          GATEWAY_PROOFS, height, last, steps, bank>>

(***************************************************************************)
(* Bounds of the exploration.                                              *)
(***************************************************************************)
\* Length of the explored histories: calls that returned Ok plus blocks passed.
MaxSteps == 4

(***************************************************************************)
(* Participants and the execution environment.                             *)
(***************************************************************************)
ADMIN == "admin"
USER == "user"
Addrs == {ADMIN, USER}
BadAddr == ""
NoAddr == "none"
NATIVE_DENOM == "uc4e"
OtherDenom == "uatom"

\* env.block.time, in seconds, of the block at height h: one block every 5 s.
BlockTime(h) == h * 5

\* deps.api.addr_validate: an error for a malformed address, else the address.
addr_validate(a) == IF a \in Addrs THEN [ok |-> TRUE, addr |-> a]
                    ELSE [ok |-> FALSE, addr |-> a]

(***************************************************************************)
(* cw-storage-plus maps: a map is a function whose domain is its key set.  *)
(***************************************************************************)
Has(map, k) == k \in DOMAIN map
Save(map, k, v) == [x \in (DOMAIN map) \cup {k} |-> IF x = k THEN v ELSE map[x]]
Remove(map, k) == [x \in (DOMAIN map) \ {k} |-> map[x]]
EmptyMap == [x \in {} |-> 0]

(***************************************************************************)
(* Strings whose length and characters matter (the content hash) are       *)
(* run-length encoded: a sequence of <<character, repetitions>>.           *)
(***************************************************************************)
HexDigits == {"0", "1", "2", "3", "4", "5", "6", "7", "8", "9",
              "a", "b", "c", "d", "e", "f", "A", "B", "C", "D", "E", "F"}
RECURSIVE StrLen(_)
StrLen(s) == IF s = <<>> THEN 0 ELSE Head(s)[2] + StrLen(Tail(s))
StrIsEmpty(s) == StrLen(s) = 0
AllHexDigits(s) == \A i \in 1..Len(s) : s[i][1] \in HexDigits
HashLen == 64

(***************************************************************************)
(* DIDs are kept as their ':'-separated segments, so that                  *)
(* "did:c4e:worker:w1" is <<"did", "c4e", "worker", "w1">>.                *)
(***************************************************************************)
Did(kind, id) == <<"did", "c4e", kind, id>>
\* did.starts_with("did:c4e:<expected_type>:")
DidHasPrefix(did, expected_type) ==
    /\ Len(did) >= 4
    /\ did[1] = "did"
    /\ did[2] = "c4e"
    /\ did[3] = expected_type

\* DIDs for which the DID contract answers GetDidDocument.
RegisteredDids == {Did("worker", "w1"), Did("worker", "w2"),
                   Did("gateway", "g1"), Did("gateway", "g2")}

(***************************************************************************)
(* Instantiation.                                                          *)
(***************************************************************************)
InstantiateMsg(whitelist, period, max_batch) ==
    [admin |-> ADMIN,
     min_stake_tier1 |-> 1000, min_stake_tier2 |-> 5000, min_stake_tier3 |-> 10000,
     deposit_tier1 |-> 100, deposit_tier2 |-> 500, deposit_tier3 |-> 1000,
     use_whitelist |-> whitelist,
     deposit_unlock_period_blocks |-> period,
     max_batch_size |-> max_batch]

instantiate(msg) ==
    [admin |-> msg.admin,
     proof_count |-> 0,
     min_reputation_threshold |-> 0,
     treasury |-> NoAddr,
     min_stake_tier1 |-> msg.min_stake_tier1,
     min_stake_tier2 |-> msg.min_stake_tier2,
     min_stake_tier3 |-> msg.min_stake_tier3,
     deposit_tier1 |-> msg.deposit_tier1,
     deposit_tier2 |-> msg.deposit_tier2,
     deposit_tier3 |-> msg.deposit_tier3,
     use_whitelist |-> msg.use_whitelist,
     deposit_unlock_period_blocks |-> msg.deposit_unlock_period_blocks,
     max_batch_size |-> msg.max_batch_size]

\* u64 words (env.block.height, deposit_unlock_period_blocks, release_at_block).
\* A word is held as its two's-complement reading, so that the words next to
\* 2^64 fit the model's integers: n >= 0 is the value n and -k is the value
\* 2^64 - k. In this reading the wrapping sum of two words is their integer
\* sum, the sum overflows when it carries out of the word, and the unsigned
\* order puts every negative reading above every non-negative one.
U64_MAX == -1
u64_wrapping_add(a, b) == a + b
u64_add_overflows(a, b) == (a < 0 /\ b < 0) \/ ((a < 0 \/ b < 0) /\ a + b >= 0)
u64_lt(a, b) == IF (a < 0) = (b < 0) THEN a < b ELSE b < 0

\* The coins of the designated denomination among the funds of a call.
AttachedNative(funds) ==
    LET at == {i \in 1..Len(funds) : funds[i].denom = NATIVE_DENOM}
    IN IF at = {} THEN 0 ELSE funds[CHOOSE i \in at : TRUE].amount

\* The chain's ledger of designated-denomination coins: what each address
\* has attached to calls that returned Ok (info.funds, credited to the
\* contract) and what the contract's BankMsg::Send messages have paid it.
NoTransfers == [received |-> [a \in Addrs |-> 0], paid |-> [a \in Addrs |-> 0]]
Received(b, sender, amount) == [b EXCEPT !.received[sender] = @ + amount]
Paid(b, to_address, amount) == [b EXCEPT !.paid[to_address] = @ + amount]

NoInfo == [none |-> TRUE]
\* The response of a committed call: its arguments and the attributes and
\* messages it returned.
Result(op, sender, err, arg, info) ==
    [op |-> op, sender |-> sender, err |-> err, arg |-> arg, info |-> info]
OK == "Ok"

InitWith(msgs) ==
    /\ \E msg \in msgs : CONFIG = instantiate(msg)
    /\ WHITELISTED_NODES = EmptyMap
    /\ UNLOCKING_DEPOSITS = EmptyMap
    /\ proofs = EmptyMap
    /\ proofs__worker = {}
    /\ PROOF_BY_HASH = EmptyMap
    /\ GATEWAY_PROOFS = {}
    /\ height = 0
    /\ last = Result("instantiate", ADMIN, OK, NoInfo, NoInfo)
    /\ steps = 0
    /\ bank = NoTransfers

(***************************************************************************)
(* Admin operations.                                                       *)
(***************************************************************************)

\* The caller compared with the instantiating administrator instead of the
\* current one.
validate_admin_initial(sender) == sender = ADMIN

\* validate_admin: TRUE when the sender is the configured admin.
validate_admin(sender) == sender = CONFIG.admin

\* update_admin open to every caller.
update_admin_no_gate(sender, new_admin) ==
    IF ~addr_validate(new_admin).ok THEN [err |-> "Std", CONFIG |-> CONFIG]
    ELSE [err |-> OK, CONFIG |-> [CONFIG EXCEPT !.admin = addr_validate(new_admin).addr]]

update_admin(sender, new_admin) ==
    IF ~validate_admin(sender) THEN [err |-> "AdminOnlyOperation", CONFIG |-> CONFIG]
    ELSE IF ~addr_validate(new_admin).ok THEN [err |-> "Std", CONFIG |-> CONFIG]
    ELSE [err |-> OK, CONFIG |-> [CONFIG EXCEPT !.admin = addr_validate(new_admin).addr]]

\* whitelist_node without the check for an existing record.
whitelist_node_overwrites(sender, node_address) ==
    IF ~validate_admin(sender) THEN [err |-> "AdminOnlyOperation", WHITELISTED_NODES |-> WHITELISTED_NODES]
    ELSE IF ~addr_validate(node_address).ok THEN [err |-> "Std", WHITELISTED_NODES |-> WHITELISTED_NODES]
    ELSE [err |-> OK,
          WHITELISTED_NODES |-> Save(WHITELISTED_NODES, node_address,
                         [address |-> node_address,
                          reputation |-> 0,
                          added_at |-> BlockTime(height),
                          deposit |-> 0,
                          tier |-> 0,
                          proof_count |-> 0,
                          disputed_proofs |-> 0,
                          last_updated |-> BlockTime(height)])]

whitelist_node(sender, node_address) ==
    IF ~validate_admin(sender) THEN [err |-> "AdminOnlyOperation", WHITELISTED_NODES |-> WHITELISTED_NODES]
    ELSE IF ~addr_validate(node_address).ok THEN [err |-> "Std", WHITELISTED_NODES |-> WHITELISTED_NODES]
    ELSE IF Has(WHITELISTED_NODES, node_address) THEN [err |-> "NodeAlreadyWhitelisted", WHITELISTED_NODES |-> WHITELISTED_NODES]
    ELSE [err |-> OK,
          WHITELISTED_NODES |-> Save(WHITELISTED_NODES, node_address,
                         [address |-> node_address,
                          reputation |-> 0,
                          added_at |-> BlockTime(height),
                          deposit |-> 0,
                          tier |-> 0,
                          proof_count |-> 0,
                          disputed_proofs |-> 0,
                          last_updated |-> BlockTime(height)])]

remove_node(sender, node_address) ==
    IF ~validate_admin(sender) THEN [err |-> "AdminOnlyOperation", WHITELISTED_NODES |-> WHITELISTED_NODES]
    ELSE IF ~addr_validate(node_address).ok THEN [err |-> "Std", WHITELISTED_NODES |-> WHITELISTED_NODES]
    ELSE IF ~Has(WHITELISTED_NODES, node_address) THEN [err |-> "NodeNotWhitelisted", WHITELISTED_NODES |-> WHITELISTED_NODES]
    ELSE [err |-> OK, WHITELISTED_NODES |-> Remove(WHITELISTED_NODES, node_address)]

update_node_reputation(sender, node_address, reputation) ==
    IF ~validate_admin(sender) THEN [err |-> "AdminOnlyOperation", WHITELISTED_NODES |-> WHITELISTED_NODES]
    ELSE IF ~addr_validate(node_address).ok THEN [err |-> "Std", WHITELISTED_NODES |-> WHITELISTED_NODES]
    ELSE IF ~Has(WHITELISTED_NODES, node_address) THEN [err |-> "NodeNotWhitelisted", WHITELISTED_NODES |-> WHITELISTED_NODES]
    ELSE [err |-> OK,
          WHITELISTED_NODES |-> Save(WHITELISTED_NODES, node_address,
                         [WHITELISTED_NODES[node_address] EXCEPT !.reputation = reputation])]

update_min_reputation_threshold(sender, threshold) ==
    IF ~validate_admin(sender) THEN [err |-> "AdminOnlyOperation", CONFIG |-> CONFIG]
    ELSE [err |-> OK, CONFIG |-> [CONFIG EXCEPT !.min_reputation_threshold = threshold]]

configure_treasury(sender, treasury_address) ==
    IF ~validate_admin(sender) THEN [err |-> "AdminOnlyOperation", CONFIG |-> CONFIG]
    ELSE IF ~addr_validate(treasury_address).ok THEN [err |-> "Std", CONFIG |-> CONFIG]
    ELSE [err |-> OK,
          CONFIG |-> [CONFIG EXCEPT !.treasury = addr_validate(treasury_address).addr]]

(***************************************************************************)
(* Node operations.                                                        *)
(***************************************************************************)

\* validate_node with the reputation check left out.
validate_node_skips_reputation(sender) ==
    IF ~Has(WHITELISTED_NODES, sender) THEN "NodeNotWhitelisted"
    ELSE IF WHITELISTED_NODES[sender].tier = 0 THEN "NodeTierNotOperational"
    ELSE OK

\* validate_node: the eligibility gate; OK or the first failing check's error.
validate_node(sender) ==
    IF ~Has(WHITELISTED_NODES, sender) THEN "NodeNotWhitelisted"
    ELSE IF WHITELISTED_NODES[sender].reputation < CONFIG.min_reputation_threshold
         THEN "InsufficientNodeReputation"
    ELSE IF WHITELISTED_NODES[sender].tier = 0 THEN "NodeTierNotOperational"
    ELSE OK

\* verify_did without the format check: only the DID contract is asked.
verify_did_registry_only(did, expected_type) ==
    IF did \in RegisteredDids THEN OK ELSE "DidNotFound"

\* verify_did (production build): format first, then the DID contract query.
verify_did(did, expected_type) ==
    IF ~DidHasPrefix(did, expected_type) THEN "InvalidDidFormat"
    ELSE IF did \in RegisteredDids THEN OK
    ELSE "DidNotFound"

\* The first error of verify_did(batch.gateway_did, "gateway") over the batches
\* in order, or OK.
RECURSIVE verify_gateways(_)
verify_gateways(batch_metadata) ==
    IF batch_metadata = <<>> THEN OK
    ELSE IF verify_did(Head(batch_metadata).gateway_did, "gateway") # OK
         THEN verify_did(Head(batch_metadata).gateway_did, "gateway")
    ELSE verify_gateways(Tail(batch_metadata))


\* The worker index rebuilt from the saved proof alone.
IndexedSaveWorker_only_latest(idx, map, pk, proof) == {<<proof.worker_did, pk>>}

\* IndexedMap::save on proofs(): replaces the record at pk and keeps the worker
\* MultiIndex in step (the old entry of pk goes, the new one comes).
IndexedSaveWorker(idx, map, pk, proof) ==
    (idx \ (IF Has(map, pk) THEN {<<map[pk].worker_did, pk>>} ELSE {}))
        \cup {<<proof.worker_did, pk>>}

required_deposit(tier) ==
    CASE tier = 3 -> CONFIG.deposit_tier3
      [] tier = 2 -> CONFIG.deposit_tier2
      [] OTHER -> CONFIG.deposit_tier1


\* The deposit check left out.
has_insufficient_deposit_never(node) == FALSE

\* node.deposit < required_deposit_for_tier
has_insufficient_deposit(node) == node.deposit < required_deposit(node.tier)


\* The duplicate check left out.
proof_exists_never(data_hash) == FALSE

\* PROOF_BY_HASH.has(deps.storage, &data_hash)
proof_exists(data_hash) == Has(PROOF_BY_HASH, data_hash)


\* The checks of store_proof with the batch bound made exclusive.
store_proof_checks_bound_exclusive(sender, msg) ==
    IF validate_node(sender) # OK THEN validate_node(sender)
    ELSE IF ~Has(WHITELISTED_NODES, sender) THEN "NodeNotRegistered"
    ELSE IF ~(WHITELISTED_NODES[sender].tier \in 1..3) THEN "NodeTierNotOperational"
    ELSE IF has_insufficient_deposit(WHITELISTED_NODES[sender])
         THEN "NodeHasInsufficientDeposit"
    ELSE IF verify_did(msg.worker_did, "worker") # OK THEN verify_did(msg.worker_did, "worker")
    ELSE IF msg.batch_metadata = <<>> THEN "EmptyBatchMetadata"
    ELSE IF Len(msg.batch_metadata) >= CONFIG.max_batch_size THEN "TooManyBatches"
    ELSE IF verify_gateways(msg.batch_metadata) # OK THEN verify_gateways(msg.batch_metadata)
    ELSE IF StrIsEmpty(msg.data_hash) THEN "InvalidInput"
    ELSE IF StrLen(msg.data_hash) # HashLen \/ ~AllHexDigits(msg.data_hash) THEN "InvalidInput"
    ELSE IF proof_exists(msg.data_hash) THEN "ProofAlreadyExists"
    ELSE OK

\* The checks of store_proof with an ordered time window required.
store_proof_checks_ordered_window(sender, msg) ==
    IF validate_node(sender) # OK THEN validate_node(sender)
    ELSE IF ~Has(WHITELISTED_NODES, sender) THEN "NodeNotRegistered"
    ELSE IF ~(WHITELISTED_NODES[sender].tier \in 1..3) THEN "NodeTierNotOperational"
    ELSE IF has_insufficient_deposit(WHITELISTED_NODES[sender])
         THEN "NodeHasInsufficientDeposit"
    ELSE IF verify_did(msg.worker_did, "worker") # OK THEN verify_did(msg.worker_did, "worker")
    ELSE IF msg.batch_metadata = <<>> THEN "EmptyBatchMetadata"
    ELSE IF Len(msg.batch_metadata) > CONFIG.max_batch_size THEN "TooManyBatches"
    ELSE IF verify_gateways(msg.batch_metadata) # OK THEN verify_gateways(msg.batch_metadata)
    ELSE IF StrIsEmpty(msg.data_hash) THEN "InvalidInput"
    ELSE IF StrLen(msg.data_hash) # HashLen \/ ~AllHexDigits(msg.data_hash) THEN "InvalidInput"
    ELSE IF msg.tw_start > msg.tw_end THEN "InvalidInput"
    ELSE IF proof_exists(msg.data_hash) THEN "ProofAlreadyExists"
    ELSE OK

\* The checks of store_proof with the duplicate check made first.
store_proof_checks_hash_first(sender, msg) ==
    IF proof_exists(msg.data_hash) THEN "ProofAlreadyExists"
    ELSE IF validate_node(sender) # OK THEN validate_node(sender)
    ELSE IF ~Has(WHITELISTED_NODES, sender) THEN "NodeNotRegistered"
    ELSE IF ~(WHITELISTED_NODES[sender].tier \in 1..3) THEN "NodeTierNotOperational"
    ELSE IF has_insufficient_deposit(WHITELISTED_NODES[sender])
         THEN "NodeHasInsufficientDeposit"
    ELSE IF verify_did(msg.worker_did, "worker") # OK THEN verify_did(msg.worker_did, "worker")
    ELSE IF msg.batch_metadata = <<>> THEN "EmptyBatchMetadata"
    ELSE IF Len(msg.batch_metadata) > CONFIG.max_batch_size THEN "TooManyBatches"
    ELSE IF verify_gateways(msg.batch_metadata) # OK THEN verify_gateways(msg.batch_metadata)
    ELSE IF StrIsEmpty(msg.data_hash) THEN "InvalidInput"
    ELSE IF StrLen(msg.data_hash) # HashLen \/ ~AllHexDigits(msg.data_hash) THEN "InvalidInput"
    ELSE OK

\* The checks of store_proof in the order the code makes them: OK, or the error
\* of the first one that fails.
store_proof_checks(sender, msg) ==
    IF validate_node(sender) # OK THEN validate_node(sender)
    ELSE IF ~Has(WHITELISTED_NODES, sender) THEN "NodeNotRegistered"
    ELSE IF ~(WHITELISTED_NODES[sender].tier \in 1..3) THEN "NodeTierNotOperational"
    ELSE IF has_insufficient_deposit(WHITELISTED_NODES[sender])
         THEN "NodeHasInsufficientDeposit"
    ELSE IF verify_did(msg.worker_did, "worker") # OK THEN verify_did(msg.worker_did, "worker")
    ELSE IF msg.batch_metadata = <<>> THEN "EmptyBatchMetadata"
    ELSE IF Len(msg.batch_metadata) > CONFIG.max_batch_size THEN "TooManyBatches"
    ELSE IF verify_gateways(msg.batch_metadata) # OK THEN verify_gateways(msg.batch_metadata)
    ELSE IF StrIsEmpty(msg.data_hash) THEN "InvalidInput"
    ELSE IF StrLen(msg.data_hash) # HashLen \/ ~AllHexDigits(msg.data_hash) THEN "InvalidInput"
    ELSE IF proof_exists(msg.data_hash) THEN "ProofAlreadyExists"
    ELSE OK


\* The fields the error variant carries: TooManyBatches { count } reports
\* batch_metadata.len(); the fields of the other variants are not modelled.
error_fields(e, msg) ==
    IF e = "TooManyBatches" THEN [count |-> Len(msg.batch_metadata)] ELSE NoInfo


\* The proof counter advanced before the checks, and left so on an error.
store_proof_err_counted(e) ==
    [err |-> e, info |-> NoInfo,
     CONFIG |-> [CONFIG EXCEPT !.proof_count = @ + 1], proofs |-> proofs,
     proofs__worker |-> proofs__worker, PROOF_BY_HASH |-> PROOF_BY_HASH,
     GATEWAY_PROOFS |-> GATEWAY_PROOFS]

\* return Err(e): nothing has been written when store_proof returns an error.
store_proof_err(e) ==
    [err |-> e, info |-> NoInfo, CONFIG |-> CONFIG, proofs |-> proofs,
     proofs__worker |-> proofs__worker, PROOF_BY_HASH |-> PROOF_BY_HASH,
     GATEWAY_PROOFS |-> GATEWAY_PROOFS]


\* Only the first batch's gateway indexed.
gateway_index_keys_first_batch(batch_metadata, proof_id) ==
    {<<batch_metadata[1].gateway_did, proof_id>>}

\* The keys GATEWAY_PROOFS.save is called with, one call per batch.
gateway_index_keys(batch_metadata, proof_id) ==
    {<<batch_metadata[i].gateway_did, proof_id>> : i \in 1..Len(batch_metadata)}


\* store_proof advancing the counter before taking the id from it.
store_proof_preincrement(sender, msg) ==
    IF store_proof_checks(sender, msg) # OK
    THEN [store_proof_err(store_proof_checks(sender, msg))
            EXCEPT !.info = error_fields(store_proof_checks(sender, msg), msg)]
    ELSE
      LET proof_id == CONFIG.proof_count + 1
          proof == [id |-> proof_id,
                    worker_did |-> msg.worker_did,
                    data_hash |-> msg.data_hash,
                    tw_start |-> msg.tw_start,
                    tw_end |-> msg.tw_end,
                    batch_metadata |-> msg.batch_metadata,
                    metadata_json |-> msg.metadata_json,
                    stored_at |-> BlockTime(height),
                    stored_by |-> sender]
      IN [err |-> OK,
          info |-> [proof_id |-> proof_id,
                    batch_count |-> Len(msg.batch_metadata),
                    gateway_dids |-> [i \in 1..Len(msg.batch_metadata) |->
                                        msg.batch_metadata[i].gateway_did]],
          CONFIG |-> [CONFIG EXCEPT !.proof_count = proof_id],
          proofs |-> Save(proofs, proof_id, proof),
          proofs__worker |-> IndexedSaveWorker(proofs__worker, proofs, proof_id, proof),
          PROOF_BY_HASH |-> Save(PROOF_BY_HASH, msg.data_hash, proof_id),
          GATEWAY_PROOFS |-> GATEWAY_PROOFS \cup
                             gateway_index_keys(msg.batch_metadata, proof_id)]

\* The proof is stored and the counter is left as it was.
store_proof_keeps_counter(sender, msg) ==
    IF store_proof_checks(sender, msg) # OK
    THEN [store_proof_err(store_proof_checks(sender, msg))
            EXCEPT !.info = error_fields(store_proof_checks(sender, msg), msg)]
    ELSE
      LET proof_id == CONFIG.proof_count
          proof == [id |-> proof_id,
                    worker_did |-> msg.worker_did,
                    data_hash |-> msg.data_hash,
                    tw_start |-> msg.tw_start,
                    tw_end |-> msg.tw_end,
                    batch_metadata |-> msg.batch_metadata,
                    metadata_json |-> msg.metadata_json,
                    stored_at |-> BlockTime(height),
                    stored_by |-> sender]
      IN [err |-> OK,
          info |-> [proof_id |-> proof_id,
                    batch_count |-> Len(msg.batch_metadata),
                    gateway_dids |-> [i \in 1..Len(msg.batch_metadata) |->
                                        msg.batch_metadata[i].gateway_did]],
          CONFIG |-> CONFIG,
          proofs |-> Save(proofs, proof_id, proof),
          proofs__worker |-> IndexedSaveWorker(proofs__worker, proofs, proof_id, proof),
          PROOF_BY_HASH |-> Save(PROOF_BY_HASH, msg.data_hash, proof_id),
          GATEWAY_PROOFS |-> GATEWAY_PROOFS \cup
                             gateway_index_keys(msg.batch_metadata, proof_id)]

store_proof(sender, msg) ==
    IF store_proof_checks(sender, msg) # OK
    THEN [store_proof_err(store_proof_checks(sender, msg))
            EXCEPT !.info = error_fields(store_proof_checks(sender, msg), msg)]
    ELSE
      LET proof_id == CONFIG.proof_count
          proof == [id |-> proof_id,
                    worker_did |-> msg.worker_did,
                    data_hash |-> msg.data_hash,
                    tw_start |-> msg.tw_start,
                    tw_end |-> msg.tw_end,
                    batch_metadata |-> msg.batch_metadata,
                    metadata_json |-> msg.metadata_json,
                    stored_at |-> BlockTime(height),
                    stored_by |-> sender]
      IN [err |-> OK,
          info |-> [proof_id |-> proof_id,
                    batch_count |-> Len(msg.batch_metadata),
                    gateway_dids |-> [i \in 1..Len(msg.batch_metadata) |->
                                        msg.batch_metadata[i].gateway_did]],
          CONFIG |-> [CONFIG EXCEPT !.proof_count = proof_id + 1],
          proofs |-> Save(proofs, proof_id, proof),
          proofs__worker |-> IndexedSaveWorker(proofs__worker, proofs, proof_id, proof),
          PROOF_BY_HASH |-> Save(PROOF_BY_HASH, msg.data_hash, proof_id),
          GATEWAY_PROOFS |-> GATEWAY_PROOFS \cup
                             gateway_index_keys(msg.batch_metadata, proof_id)]

\* verify_proof open to every caller.
verify_proof_ungated(sender, data_hash) ==
    IF ~Has(PROOF_BY_HASH, data_hash) THEN [err |-> "ProofNotFound", info |-> NoInfo]
    ELSE [err |-> OK, info |-> [proof_id |-> PROOF_BY_HASH[data_hash]]]

verify_proof(sender, data_hash) ==
    IF validate_node(sender) # OK THEN [err |-> validate_node(sender), info |-> NoInfo]
    ELSE IF ~Has(PROOF_BY_HASH, data_hash) THEN [err |-> "ProofNotFound", info |-> NoInfo]
    ELSE [err |-> OK, info |-> [proof_id |-> PROOF_BY_HASH[data_hash]]]

(***************************************************************************)
(* Registration and the deposit lifecycle.                                 *)
(***************************************************************************)
\* Sum of the delegations in the bonded denomination.
RECURSIVE total_staked(_, _)
total_staked(delegations, bonded_denom) ==
    IF delegations = <<>> THEN 0
    ELSE (IF Head(delegations).denom = bonded_denom THEN Head(delegations).amount ELSE 0)
         + total_staked(Tail(delegations), bonded_denom)

TestFallbackStake == 1000

\* get_native_staked_amount over the two staking-module answers q.bonded and
\* q.delegations, each [ok, ...] or an error with its text.
get_native_staked_amount(q) ==
    IF ~q.bonded.ok
    THEN IF q.bonded.text \in {"Unexpected custom query", "BondedDenom"}
         THEN [ok |-> TRUE, amount |-> TestFallbackStake]
         ELSE [ok |-> FALSE, amount |-> 0]
    ELSE IF ~q.delegations.ok THEN [ok |-> FALSE, amount |-> 0]
    ELSE [ok |-> TRUE, amount |-> total_staked(q.delegations.list, q.bonded.denom)]


\* The amount of the first coin attached, whatever its denomination.
sent_deposit_amount_any_denom(funds) ==
    IF funds = <<>> THEN 0 ELSE Head(funds).amount

\* info.funds.iter().find(|c| c.denom == "uc4e").map_or(zero, |c| c.amount)
RECURSIVE sent_deposit_amount(_)
sent_deposit_amount(funds) ==
    IF funds = <<>> THEN 0
    ELSE IF Head(funds).denom = NATIVE_DENOM THEN Head(funds).amount
    ELSE sent_deposit_amount(Tail(funds))


\* The thresholds compared with > instead of >=.
stake_tier_strict(native_staked_amount) ==
    IF native_staked_amount > CONFIG.min_stake_tier3 THEN 3
    ELSE IF native_staked_amount > CONFIG.min_stake_tier2 THEN 2
    ELSE IF native_staked_amount > CONFIG.min_stake_tier1 THEN 1
    ELSE 0

\* The tier the stake qualifies for; 0 when below every threshold tried.
stake_tier(native_staked_amount) ==
    IF native_staked_amount >= CONFIG.min_stake_tier3 THEN 3
    ELSE IF native_staked_amount >= CONFIG.min_stake_tier2 THEN 2
    ELSE IF native_staked_amount >= CONFIG.min_stake_tier1 THEN 1
    ELSE 0


\* register_node without the refusal of an already operational node.
register_node_again(sender, funds, q) ==
    LET Fail(e, i) == [err |-> e, info |-> i, WHITELISTED_NODES |-> WHITELISTED_NODES] IN
    IF ~get_native_staked_amount(q).ok THEN Fail("StakingQueryError", NoInfo)
    ELSE
      LET native_staked_amount == get_native_staked_amount(q).amount
          tier == stake_tier(native_staked_amount)
          sent == sent_deposit_amount(funds)
      IN
      IF tier = 0
      THEN Fail("InsufficientStake",
                [required |-> CONFIG.min_stake_tier1, provided |-> native_staked_amount])
      ELSE IF sent < required_deposit(tier)
      THEN Fail("DepositDoesNotMatchTierRequirement",
                [required_deposit |-> required_deposit(tier), provided_deposit |-> sent,
                 tier |-> tier])
      ELSE [err |-> OK,
            info |-> [native_stake_verified |-> native_staked_amount,
                      tier_assigned |-> tier, deposit_locked |-> sent],
            WHITELISTED_NODES |-> Save(WHITELISTED_NODES, sender,
                           [address |-> sender,
                            reputation |-> 0,
                            added_at |-> IF Has(WHITELISTED_NODES, sender) THEN WHITELISTED_NODES[sender].added_at
                                         ELSE BlockTime(height),
                            deposit |-> sent,
                            tier |-> tier,
                            proof_count |-> 0,
                            disputed_proofs |-> 0,
                            last_updated |-> BlockTime(height)])]

\* register_node keeping the reputation of the whitelisted record.
register_node_keeps_reputation(sender, funds, q) ==
    LET Fail(e, i) == [err |-> e, info |-> i, WHITELISTED_NODES |-> WHITELISTED_NODES] IN
    IF Has(WHITELISTED_NODES, sender) /\ WHITELISTED_NODES[sender].tier > 0
    THEN Fail("CustomError", [message |-> "Node already registered"])
    ELSE IF ~get_native_staked_amount(q).ok THEN Fail("StakingQueryError", NoInfo)
    ELSE
      LET native_staked_amount == get_native_staked_amount(q).amount
          tier == stake_tier(native_staked_amount)
          sent == sent_deposit_amount(funds)
      IN
      IF tier = 0
      THEN Fail("InsufficientStake",
                [required |-> CONFIG.min_stake_tier1, provided |-> native_staked_amount])
      ELSE IF sent < required_deposit(tier)
      THEN Fail("DepositDoesNotMatchTierRequirement",
                [required_deposit |-> required_deposit(tier), provided_deposit |-> sent,
                 tier |-> tier])
      ELSE [err |-> OK,
            info |-> [native_stake_verified |-> native_staked_amount,
                      tier_assigned |-> tier, deposit_locked |-> sent],
            WHITELISTED_NODES |-> Save(WHITELISTED_NODES, sender,
                           [address |-> sender,
                            reputation |-> IF Has(WHITELISTED_NODES, sender) THEN WHITELISTED_NODES[sender].reputation
                                           ELSE 0,
                            added_at |-> IF Has(WHITELISTED_NODES, sender) THEN WHITELISTED_NODES[sender].added_at
                                         ELSE BlockTime(height),
                            deposit |-> sent,
                            tier |-> tier,
                            proof_count |-> 0,
                            disputed_proofs |-> 0,
                            last_updated |-> BlockTime(height)])]

register_node(sender, funds, q) ==
    LET Fail(e, i) == [err |-> e, info |-> i, WHITELISTED_NODES |-> WHITELISTED_NODES] IN
    IF Has(WHITELISTED_NODES, sender) /\ WHITELISTED_NODES[sender].tier > 0
    THEN Fail("CustomError", [message |-> "Node already registered"])
    ELSE IF ~get_native_staked_amount(q).ok THEN Fail("StakingQueryError", NoInfo)
    ELSE
      LET native_staked_amount == get_native_staked_amount(q).amount
          tier == stake_tier(native_staked_amount)
          sent == sent_deposit_amount(funds)
      IN
      IF tier = 0
      THEN Fail("InsufficientStake",
                [required |-> CONFIG.min_stake_tier1, provided |-> native_staked_amount])
      ELSE IF sent < required_deposit(tier)
      THEN Fail("DepositDoesNotMatchTierRequirement",
                [required_deposit |-> required_deposit(tier), provided_deposit |-> sent,
                 tier |-> tier])
      ELSE [err |-> OK,
            info |-> [native_stake_verified |-> native_staked_amount,
                      tier_assigned |-> tier, deposit_locked |-> sent],
            WHITELISTED_NODES |-> Save(WHITELISTED_NODES, sender,
                           [address |-> sender,
                            reputation |-> 0,
                            added_at |-> IF Has(WHITELISTED_NODES, sender) THEN WHITELISTED_NODES[sender].added_at
                                         ELSE BlockTime(height),
                            deposit |-> sent,
                            tier |-> tier,
                            proof_count |-> 0,
                            disputed_proofs |-> 0,
                            last_updated |-> BlockTime(height)])]


\* unlock_deposit with the deposit zeroed before the checks, and left so on
\* an error.
unlock_deposit_zeroes_first(sender) ==
    LET zeroed == IF Has(WHITELISTED_NODES, sender)
                  THEN Save(WHITELISTED_NODES, sender,
                            [WHITELISTED_NODES[sender] EXCEPT !.deposit = 0])
                  ELSE WHITELISTED_NODES
        Fail(e) == [err |-> e, info |-> NoInfo, WHITELISTED_NODES |-> zeroed,
                    UNLOCKING_DEPOSITS |-> UNLOCKING_DEPOSITS]
    IN
    IF ~Has(WHITELISTED_NODES, sender) THEN Fail("NodeNotRegistered")
    ELSE IF Has(UNLOCKING_DEPOSITS, sender) THEN Fail("DepositAlreadyUnlocking")
    ELSE IF WHITELISTED_NODES[sender].deposit = 0 THEN Fail("NoDepositToUnlock")
    ELSE
      LET unlocking_amount == WHITELISTED_NODES[sender].deposit
          release_at_block == u64_wrapping_add(height, CONFIG.deposit_unlock_period_blocks)
      IN [err |-> OK,
          info |-> [unlocking_amount |-> unlocking_amount,
                    release_at_block |-> release_at_block],
          WHITELISTED_NODES |-> zeroed,
          UNLOCKING_DEPOSITS |-> Save(UNLOCKING_DEPOSITS, sender,
                             [owner |-> sender, amount |-> unlocking_amount,
                              release_at_block |-> release_at_block])]


\* unlock_deposit with the release height counted from block 0 instead of
\* the current block.
unlock_deposit_from_genesis(sender) ==
    LET Fail(e) == [err |-> e, info |-> NoInfo, WHITELISTED_NODES |-> WHITELISTED_NODES, UNLOCKING_DEPOSITS |-> UNLOCKING_DEPOSITS] IN
    IF ~Has(WHITELISTED_NODES, sender) THEN Fail("NodeNotRegistered")
    ELSE IF Has(UNLOCKING_DEPOSITS, sender) THEN Fail("DepositAlreadyUnlocking")
    ELSE IF WHITELISTED_NODES[sender].deposit = 0 THEN Fail("NoDepositToUnlock")
    ELSE
      LET unlocking_amount == WHITELISTED_NODES[sender].deposit
          release_at_block == CONFIG.deposit_unlock_period_blocks
      IN [err |-> OK,
          info |-> [unlocking_amount |-> unlocking_amount,
                    release_at_block |-> release_at_block],
          WHITELISTED_NODES |-> Save(WHITELISTED_NODES, sender, [WHITELISTED_NODES[sender] EXCEPT !.deposit = 0]),
          UNLOCKING_DEPOSITS |-> Save(UNLOCKING_DEPOSITS, sender,
                             [owner |-> sender, amount |-> unlocking_amount,
                              release_at_block |-> release_at_block])]

\* The unlock also takes the tier away.
unlock_deposit_resets_tier(sender) ==
    LET Fail(e) == [err |-> e, info |-> NoInfo, WHITELISTED_NODES |-> WHITELISTED_NODES, UNLOCKING_DEPOSITS |-> UNLOCKING_DEPOSITS] IN
    IF ~Has(WHITELISTED_NODES, sender) THEN Fail("NodeNotRegistered")
    ELSE IF Has(UNLOCKING_DEPOSITS, sender) THEN Fail("DepositAlreadyUnlocking")
    ELSE IF WHITELISTED_NODES[sender].deposit = 0 THEN Fail("NoDepositToUnlock")
    ELSE
      LET unlocking_amount == WHITELISTED_NODES[sender].deposit
          release_at_block == u64_wrapping_add(height, CONFIG.deposit_unlock_period_blocks)
      IN [err |-> OK,
          info |-> [unlocking_amount |-> unlocking_amount,
                    release_at_block |-> release_at_block],
          WHITELISTED_NODES |-> Save(WHITELISTED_NODES, sender, [WHITELISTED_NODES[sender] EXCEPT !.deposit = 0, !.tier = 0]),
          UNLOCKING_DEPOSITS |-> Save(UNLOCKING_DEPOSITS, sender,
                             [owner |-> sender, amount |-> unlocking_amount,
                              release_at_block |-> release_at_block])]

\* The unlock zeroes the deposit of every Node, not only the sender's.
unlock_deposit_zeroes_every_node(sender) ==
    LET Fail(e) == [err |-> e, info |-> NoInfo, WHITELISTED_NODES |-> WHITELISTED_NODES, UNLOCKING_DEPOSITS |-> UNLOCKING_DEPOSITS] IN
    IF ~Has(WHITELISTED_NODES, sender) THEN Fail("NodeNotRegistered")
    ELSE IF Has(UNLOCKING_DEPOSITS, sender) THEN Fail("DepositAlreadyUnlocking")
    ELSE IF WHITELISTED_NODES[sender].deposit = 0 THEN Fail("NoDepositToUnlock")
    ELSE
      LET unlocking_amount == WHITELISTED_NODES[sender].deposit
          release_at_block == u64_wrapping_add(height, CONFIG.deposit_unlock_period_blocks)
      IN [err |-> OK,
          info |-> [unlocking_amount |-> unlocking_amount,
                    release_at_block |-> release_at_block],
          WHITELISTED_NODES |-> [a \in DOMAIN WHITELISTED_NODES |->
                                  [WHITELISTED_NODES[a] EXCEPT !.deposit = 0]],
          UNLOCKING_DEPOSITS |-> Save(UNLOCKING_DEPOSITS, sender,
                             [owner |-> sender, amount |-> unlocking_amount,
                              release_at_block |-> release_at_block])]

unlock_deposit(sender) ==
    LET Fail(e) == [err |-> e, info |-> NoInfo, WHITELISTED_NODES |-> WHITELISTED_NODES, UNLOCKING_DEPOSITS |-> UNLOCKING_DEPOSITS] IN
    IF ~Has(WHITELISTED_NODES, sender) THEN Fail("NodeNotRegistered")
    ELSE IF Has(UNLOCKING_DEPOSITS, sender) THEN Fail("DepositAlreadyUnlocking")
    ELSE IF WHITELISTED_NODES[sender].deposit = 0 THEN Fail("NoDepositToUnlock")
    ELSE
      LET unlocking_amount == WHITELISTED_NODES[sender].deposit
          release_at_block == u64_wrapping_add(height, CONFIG.deposit_unlock_period_blocks)
      IN [err |-> OK,
          info |-> [unlocking_amount |-> unlocking_amount,
                    release_at_block |-> release_at_block],
          WHITELISTED_NODES |-> Save(WHITELISTED_NODES, sender, [WHITELISTED_NODES[sender] EXCEPT !.deposit = 0]),
          UNLOCKING_DEPOSITS |-> Save(UNLOCKING_DEPOSITS, sender,
                             [owner |-> sender, amount |-> unlocking_amount,
                              release_at_block |-> release_at_block])]


\* The release height itself still counted as locked.
not_yet_released_inclusive(block_height, release_at_block) ==
    block_height <= release_at_block

\* env.block.height < unlocking_deposit.release_at_block
not_yet_released(block_height, release_at_block) ==
    u64_lt(block_height, release_at_block)


\* claim_unlocked_deposit paying out the tier-1 requirement instead of the
\* record's amount.
claim_unlocked_deposit_pays_requirement(sender) ==
    IF ~Has(UNLOCKING_DEPOSITS, sender)
    THEN [err |-> "NoUnlockedDepositToClaim", info |-> NoInfo,
          UNLOCKING_DEPOSITS |-> UNLOCKING_DEPOSITS]
    ELSE IF not_yet_released(height, UNLOCKING_DEPOSITS[sender].release_at_block)
    THEN [err |-> "DepositNotYetUnlocked",
          info |-> [release_at_block |-> UNLOCKING_DEPOSITS[sender].release_at_block],
          UNLOCKING_DEPOSITS |-> UNLOCKING_DEPOSITS]
    ELSE [err |-> OK,
          info |-> [messages |-> <<[to_address |-> sender, denom |-> NATIVE_DENOM,
                                    amount |-> CONFIG.deposit_tier1]>>,
                    claimed_amount |-> UNLOCKING_DEPOSITS[sender].amount],
          UNLOCKING_DEPOSITS |-> Remove(UNLOCKING_DEPOSITS, sender)]

\* claim_unlocked_deposit open only to participants that have a Node record.
claim_unlocked_deposit_requires_node(sender) ==
    IF ~Has(WHITELISTED_NODES, sender)
    THEN [err |-> "NodeNotRegistered", info |-> NoInfo,
          UNLOCKING_DEPOSITS |-> UNLOCKING_DEPOSITS]
    ELSE IF ~Has(UNLOCKING_DEPOSITS, sender)
    THEN [err |-> "NoUnlockedDepositToClaim", info |-> NoInfo,
          UNLOCKING_DEPOSITS |-> UNLOCKING_DEPOSITS]
    ELSE IF not_yet_released(height, UNLOCKING_DEPOSITS[sender].release_at_block)
    THEN [err |-> "DepositNotYetUnlocked",
          info |-> [release_at_block |-> UNLOCKING_DEPOSITS[sender].release_at_block],
          UNLOCKING_DEPOSITS |-> UNLOCKING_DEPOSITS]
    ELSE [err |-> OK,
          info |-> [messages |-> <<[to_address |-> sender, denom |-> NATIVE_DENOM,
                                    amount |-> UNLOCKING_DEPOSITS[sender].amount]>>,
                    claimed_amount |-> UNLOCKING_DEPOSITS[sender].amount],
          UNLOCKING_DEPOSITS |-> Remove(UNLOCKING_DEPOSITS, sender)]

\* The claim pays but leaves the UnlockingDeposit in place.
claim_unlocked_deposit_keeps_record(sender) ==
    IF ~Has(UNLOCKING_DEPOSITS, sender)
    THEN [err |-> "NoUnlockedDepositToClaim", info |-> NoInfo,
          UNLOCKING_DEPOSITS |-> UNLOCKING_DEPOSITS]
    ELSE IF not_yet_released(height, UNLOCKING_DEPOSITS[sender].release_at_block)
    THEN [err |-> "DepositNotYetUnlocked",
          info |-> [release_at_block |-> UNLOCKING_DEPOSITS[sender].release_at_block],
          UNLOCKING_DEPOSITS |-> UNLOCKING_DEPOSITS]
    ELSE [err |-> OK,
          info |-> [messages |-> <<[to_address |-> sender, denom |-> NATIVE_DENOM,
                                    amount |-> UNLOCKING_DEPOSITS[sender].amount]>>,
                    claimed_amount |-> UNLOCKING_DEPOSITS[sender].amount],
          UNLOCKING_DEPOSITS |-> UNLOCKING_DEPOSITS]

\* The claim is open to eligible nodes only.
claim_unlocked_deposit_validates_node(sender) ==
    IF validate_node(sender) # OK
    THEN [err |-> validate_node(sender), info |-> NoInfo,
          UNLOCKING_DEPOSITS |-> UNLOCKING_DEPOSITS]
    ELSE IF ~Has(UNLOCKING_DEPOSITS, sender)
    THEN [err |-> "NoUnlockedDepositToClaim", info |-> NoInfo,
          UNLOCKING_DEPOSITS |-> UNLOCKING_DEPOSITS]
    ELSE IF not_yet_released(height, UNLOCKING_DEPOSITS[sender].release_at_block)
    THEN [err |-> "DepositNotYetUnlocked",
          info |-> [release_at_block |-> UNLOCKING_DEPOSITS[sender].release_at_block],
          UNLOCKING_DEPOSITS |-> UNLOCKING_DEPOSITS]
    ELSE [err |-> OK,
          info |-> [messages |-> <<[to_address |-> sender, denom |-> NATIVE_DENOM,
                                    amount |-> UNLOCKING_DEPOSITS[sender].amount]>>,
                    claimed_amount |-> UNLOCKING_DEPOSITS[sender].amount],
          UNLOCKING_DEPOSITS |-> Remove(UNLOCKING_DEPOSITS, sender)]

claim_unlocked_deposit(sender) ==
    IF ~Has(UNLOCKING_DEPOSITS, sender)
    THEN [err |-> "NoUnlockedDepositToClaim", info |-> NoInfo,
          UNLOCKING_DEPOSITS |-> UNLOCKING_DEPOSITS]
    ELSE IF not_yet_released(height, UNLOCKING_DEPOSITS[sender].release_at_block)
    THEN [err |-> "DepositNotYetUnlocked",
          info |-> [release_at_block |-> UNLOCKING_DEPOSITS[sender].release_at_block],
          UNLOCKING_DEPOSITS |-> UNLOCKING_DEPOSITS]
    ELSE [err |-> OK,
          info |-> [messages |-> <<[to_address |-> sender, denom |-> NATIVE_DENOM,
                                    amount |-> UNLOCKING_DEPOSITS[sender].amount]>>,
                    claimed_amount |-> UNLOCKING_DEPOSITS[sender].amount],
          UNLOCKING_DEPOSITS |-> Remove(UNLOCKING_DEPOSITS, sender)]


\* add_deposit without the refusal of a pending unlock.
add_deposit_while_unlocking(sender, funds) ==
    LET Fail(e) == [err |-> e, info |-> NoInfo, WHITELISTED_NODES |-> WHITELISTED_NODES] IN
    IF ~Has(WHITELISTED_NODES, sender) THEN Fail("NodeNotRegistered")
    ELSE IF sent_deposit_amount(funds) = 0 THEN Fail("CustomError")
    ELSE IF /\ Len(funds) > 1
            /\ \E i \in 1..Len(funds) : funds[i].denom # NATIVE_DENOM
            /\ Len(funds) = 1
            /\ funds[1].denom # NATIVE_DENOM
         THEN Fail("CustomError")
    ELSE [err |-> OK,
          info |-> [added_amount |-> sent_deposit_amount(funds),
                    new_total_deposit |-> WHITELISTED_NODES[sender].deposit + sent_deposit_amount(funds)],
          WHITELISTED_NODES |-> Save(WHITELISTED_NODES, sender,
                         [WHITELISTED_NODES[sender] EXCEPT
                              !.deposit = @ + sent_deposit_amount(funds),
                              !.last_updated = BlockTime(height)])]


\* add_deposit setting the deposit to the amount sent instead of adding it.
add_deposit_replaces(sender, funds) ==
    LET Fail(e) == [err |-> e, info |-> NoInfo, WHITELISTED_NODES |-> WHITELISTED_NODES] IN
    IF ~Has(WHITELISTED_NODES, sender) THEN Fail("NodeNotRegistered")
    ELSE IF Has(UNLOCKING_DEPOSITS, sender) THEN Fail("DepositAlreadyUnlocking")
    ELSE IF sent_deposit_amount(funds) = 0 THEN Fail("CustomError")
    ELSE IF /\ Len(funds) > 1
            /\ \E i \in 1..Len(funds) : funds[i].denom # NATIVE_DENOM
            /\ Len(funds) = 1
            /\ funds[1].denom # NATIVE_DENOM
         THEN Fail("CustomError")
    ELSE [err |-> OK,
          info |-> [added_amount |-> sent_deposit_amount(funds),
                    new_total_deposit |-> WHITELISTED_NODES[sender].deposit + sent_deposit_amount(funds)],
          WHITELISTED_NODES |-> Save(WHITELISTED_NODES, sender,
                         [WHITELISTED_NODES[sender] EXCEPT
                              !.deposit = sent_deposit_amount(funds),
                              !.last_updated = BlockTime(height)])]

add_deposit(sender, funds) ==
    LET Fail(e) == [err |-> e, info |-> NoInfo, WHITELISTED_NODES |-> WHITELISTED_NODES] IN
    IF ~Has(WHITELISTED_NODES, sender) THEN Fail("NodeNotRegistered")
    ELSE IF Has(UNLOCKING_DEPOSITS, sender) THEN Fail("DepositAlreadyUnlocking")
    ELSE IF sent_deposit_amount(funds) = 0 THEN Fail("CustomError")
    ELSE IF /\ Len(funds) > 1
            /\ \E i \in 1..Len(funds) : funds[i].denom # NATIVE_DENOM
            /\ Len(funds) = 1
            /\ funds[1].denom # NATIVE_DENOM
         THEN Fail("CustomError")
    ELSE [err |-> OK,
          info |-> [added_amount |-> sent_deposit_amount(funds),
                    new_total_deposit |-> WHITELISTED_NODES[sender].deposit + sent_deposit_amount(funds)],
          WHITELISTED_NODES |-> Save(WHITELISTED_NODES, sender,
                         [WHITELISTED_NODES[sender] EXCEPT
                              !.deposit = @ + sent_deposit_amount(funds),
                              !.last_updated = BlockTime(height)])]

(***************************************************************************)
(* Queries (src/src/query.rs).                                             *)
(***************************************************************************)
DEFAULT_LIMIT == 10
MAX_LIMIT == 30
\* Option::None of an Option<u64> or Option<u32>: a value outside the unsigned range.
None == -1
Min(a, b) == IF a <= b THEN a ELSE b

\* The page limit without the hard cap.
page_limit_uncapped(limit) == IF limit = None THEN DEFAULT_LIMIT ELSE limit

\* limit.unwrap_or(DEFAULT_LIMIT).min(MAX_LIMIT)
page_limit(limit) == Min(IF limit = None THEN DEFAULT_LIMIT ELSE limit, MAX_LIMIT)

\* range(start = Bound::exclusive(start_after), None, Ascending).take(limit)
\* over a set of u64 keys.
RECURSIVE Ascending(_, _)
Ascending(keys, n) ==
    IF keys = {} \/ n = 0 THEN <<>>
    ELSE LET k == CHOOSE x \in keys : \A y \in keys : x <= y
         IN <<k>> \o Ascending(keys \ {k}, n - 1)
range_take(keys, start_after, limit) ==
    Ascending({k \in keys : start_after = None \/ k > start_after}, page_limit(limit))

ProofResponse(p) ==
    [id |-> p.id, worker_did |-> p.worker_did, data_hash |-> p.data_hash,
     tw_start |-> p.tw_start, tw_end |-> p.tw_end,
     batch_metadata |-> p.batch_metadata, metadata_json |-> p.metadata_json,
     stored_at |-> p.stored_at, stored_by |-> p.stored_by]

NotFound == [ok |-> FALSE]
proof(id) == IF Has(proofs, id) THEN [ok |-> TRUE, proof |-> ProofResponse(proofs[id])]
             ELSE NotFound
proof_by_hash(data_hash) ==
    IF Has(PROOF_BY_HASH, data_hash) THEN proof(PROOF_BY_HASH[data_hash]) ELSE NotFound

\* Loads the proofs of a page of ids; an id without a record fails the query.
load_page(ids) ==
    IF \A i \in 1..Len(ids) : Has(proofs, ids[i])
    THEN [ok |-> TRUE, proofs |-> [i \in 1..Len(ids) |-> ProofResponse(proofs[ids[i]])]]
    ELSE NotFound

query_proofs(start_after, limit) ==
    load_page(range_take(DOMAIN proofs, start_after, limit))
query_proofs_by_worker(worker_did, start_after, limit) ==
    load_page(range_take({e[2] : e \in {x \in proofs__worker : x[1] = worker_did}},
                         start_after, limit))
query_proofs_by_gateway(gateway_did, start_after, limit) ==
    load_page(range_take({e[2] : e \in {x \in GATEWAY_PROOFS : x[1] = gateway_did}},
                         start_after, limit))

is_whitelisted(address) == Has(WHITELISTED_NODES, address)
node_reputation(address) == IF Has(WHITELISTED_NODES, address) THEN WHITELISTED_NODES[address].reputation ELSE 0

\* node_info: the pending unlock is read first and reported whether or not a
\* Node record exists; q is the staking module's answer, a failure of which
\* is reported as a stake of 0.
node_info(node_address, q) ==
    IF ~addr_validate(node_address).ok THEN [ok |-> FALSE]
    ELSE
      LET validated_address == addr_validate(node_address).addr
          unlocking == Has(UNLOCKING_DEPOSITS, validated_address)
          unlocking_deposit_amount ==
              IF unlocking THEN UNLOCKING_DEPOSITS[validated_address].amount ELSE None
          unlocking_deposit_release_at_block ==
              IF unlocking THEN UNLOCKING_DEPOSITS[validated_address].release_at_block
              ELSE None
      IN
      IF Has(WHITELISTED_NODES, node_address)
      THEN LET node == WHITELISTED_NODES[node_address] IN
           [ok |-> TRUE,
            address |-> node.address,
            is_whitelisted |-> TRUE,
            reputation |-> node.reputation,
            added_at |-> node.added_at,
            deposit |-> node.deposit,
            native_staked_amount |->
                IF get_native_staked_amount(q).ok THEN get_native_staked_amount(q).amount
                ELSE 0,
            tier |-> node.tier,
            last_updated |-> node.last_updated,
            proof_count |-> node.proof_count,
            disputed_proofs |-> node.disputed_proofs,
            unlocking_deposit_amount |-> unlocking_deposit_amount,
            unlocking_deposit_release_at_block |-> unlocking_deposit_release_at_block]
      ELSE [ok |-> TRUE,
            address |-> node_address,
            is_whitelisted |-> FALSE,
            reputation |-> 0,
            added_at |-> None,
            deposit |-> None,
            native_staked_amount |-> None,
            tier |-> None,
            last_updated |-> None,
            proof_count |-> None,
            disputed_proofs |-> None,
            unlocking_deposit_amount |-> unlocking_deposit_amount,
            unlocking_deposit_release_at_block |-> unlocking_deposit_release_at_block]

(***************************************************************************)
(* The execute entry point: one action per ExecuteMsg variant.  The state  *)
(* after a call is what its handler wrote.  `last` is the response of the  *)
(* latest call that returned Ok; a call that returns an error leaves no    *)
(* response behind.                                                        *)
(***************************************************************************)
Reply(err, response) ==
    /\ err = OK => steps < MaxSteps
    /\ last' = (IF err = OK THEN response ELSE last)
    /\ steps' = (IF err = OK THEN steps + 1 ELSE steps)

UpdateAdmin(sender, new_admin) ==
    LET r == update_admin(sender, new_admin) IN
    /\ CONFIG' = r.CONFIG
    /\ Reply(r.err, Result("update_admin", sender, r.err, [new_admin |-> new_admin], NoInfo))
    /\ UNCHANGED <<WHITELISTED_NODES, UNLOCKING_DEPOSITS, proofs, proofs__worker, PROOF_BY_HASH,
                   GATEWAY_PROOFS, height, bank>>

WhitelistNode(sender, node_address) ==
    LET r == whitelist_node(sender, node_address) IN
    /\ WHITELISTED_NODES' = r.WHITELISTED_NODES
    /\ Reply(r.err, Result("whitelist_node", sender, r.err, [node_address |-> node_address], NoInfo))
    /\ UNCHANGED <<CONFIG, UNLOCKING_DEPOSITS, proofs, proofs__worker, PROOF_BY_HASH,
                   GATEWAY_PROOFS, height, bank>>

RemoveNode(sender, node_address) ==
    LET r == remove_node(sender, node_address) IN
    /\ WHITELISTED_NODES' = r.WHITELISTED_NODES
    /\ Reply(r.err, Result("remove_node", sender, r.err, [node_address |-> node_address], NoInfo))
    /\ UNCHANGED <<CONFIG, UNLOCKING_DEPOSITS, proofs, proofs__worker, PROOF_BY_HASH,
                   GATEWAY_PROOFS, height, bank>>

UpdateNodeReputation(sender, node_address, reputation) ==
    LET r == update_node_reputation(sender, node_address, reputation) IN
    /\ WHITELISTED_NODES' = r.WHITELISTED_NODES
    /\ Reply(r.err, Result("update_node_reputation", sender, r.err,
                      [node_address |-> node_address, reputation |-> reputation], NoInfo))
    /\ UNCHANGED <<CONFIG, UNLOCKING_DEPOSITS, proofs, proofs__worker, PROOF_BY_HASH,
                   GATEWAY_PROOFS, height, bank>>

UpdateMinReputationThreshold(sender, threshold) ==
    LET r == update_min_reputation_threshold(sender, threshold) IN
    /\ CONFIG' = r.CONFIG
    /\ Reply(r.err, Result("update_min_reputation_threshold", sender, r.err,
                      [threshold |-> threshold], NoInfo))
    /\ UNCHANGED <<WHITELISTED_NODES, UNLOCKING_DEPOSITS, proofs, proofs__worker, PROOF_BY_HASH,
                   GATEWAY_PROOFS, height, bank>>

ConfigureTreasury(sender, treasury_address) ==
    LET r == configure_treasury(sender, treasury_address) IN
    /\ CONFIG' = r.CONFIG
    /\ Reply(r.err, Result("configure_treasury", sender, r.err,
                      [treasury_address |-> treasury_address], NoInfo))
    /\ UNCHANGED <<WHITELISTED_NODES, UNLOCKING_DEPOSITS, proofs, proofs__worker, PROOF_BY_HASH,
                   GATEWAY_PROOFS, height, bank>>

StoreProof(sender, msg) ==
    LET r == store_proof(sender, msg) IN
    /\ CONFIG' = r.CONFIG
    /\ proofs' = r.proofs
    /\ proofs__worker' = r.proofs__worker
    /\ PROOF_BY_HASH' = r.PROOF_BY_HASH
    /\ GATEWAY_PROOFS' = r.GATEWAY_PROOFS
    /\ Reply(r.err, Result("store_proof", sender, r.err, msg, r.info))
    /\ UNCHANGED <<WHITELISTED_NODES, UNLOCKING_DEPOSITS, height, bank>>

VerifyProof(sender, data_hash) ==
    LET r == verify_proof(sender, data_hash) IN
    /\ Reply(r.err, Result("verify_proof", sender, r.err, [data_hash |-> data_hash], r.info))
    /\ UNCHANGED <<CONFIG, WHITELISTED_NODES, UNLOCKING_DEPOSITS, proofs, proofs__worker, PROOF_BY_HASH,
                   GATEWAY_PROOFS, height, bank>>

RegisterNode(sender, funds, q) ==
    LET r == register_node(sender, funds, q) IN
    /\ WHITELISTED_NODES' = r.WHITELISTED_NODES
    /\ Reply(r.err, Result("register_node", sender, r.err, [funds |-> funds, q |-> q], r.info))
    /\ bank' = (IF r.err = OK THEN Received(bank, sender, AttachedNative(funds)) ELSE bank)
    /\ UNCHANGED <<CONFIG, UNLOCKING_DEPOSITS, proofs, proofs__worker, PROOF_BY_HASH,
                   GATEWAY_PROOFS, height>>

AddDeposit(sender, funds) ==
    LET r == add_deposit(sender, funds) IN
    /\ WHITELISTED_NODES' = r.WHITELISTED_NODES
    /\ Reply(r.err, Result("add_deposit", sender, r.err, [funds |-> funds], r.info))
    /\ bank' = (IF r.err = OK THEN Received(bank, sender, AttachedNative(funds)) ELSE bank)
    /\ UNCHANGED <<CONFIG, UNLOCKING_DEPOSITS, proofs, proofs__worker, PROOF_BY_HASH,
                   GATEWAY_PROOFS, height>>

\* env.block.height + config.deposit_unlock_period_blocks is a plain u64 sum
\* (execute.rs:601): where it overflows, a build with overflow checks panics
\* and the call is aborted, and a build without them wraps.
UnlockDeposit(sender) ==
    LET r == unlock_deposit(sender) IN
    \E overflow_checks \in BOOLEAN :
      IF /\ overflow_checks
         /\ r.err = OK
         /\ u64_add_overflows(height, CONFIG.deposit_unlock_period_blocks)
      THEN UNCHANGED vars
      ELSE /\ WHITELISTED_NODES' = r.WHITELISTED_NODES
           /\ UNLOCKING_DEPOSITS' = r.UNLOCKING_DEPOSITS
           /\ Reply(r.err, Result("unlock_deposit", sender, r.err, [height |-> height], r.info))
           /\ UNCHANGED <<CONFIG, proofs, proofs__worker, PROOF_BY_HASH, GATEWAY_PROOFS,
                          height, bank>>

ClaimUnlockedDeposit(sender) ==
    LET r == claim_unlocked_deposit(sender) IN
    /\ UNLOCKING_DEPOSITS' = r.UNLOCKING_DEPOSITS
    /\ Reply(r.err, Result("claim_unlocked_deposit", sender, r.err, NoInfo, r.info))
    /\ bank' = (IF r.err = OK THEN Paid(bank, r.info.messages[1].to_address, r.info.messages[1].amount) ELSE bank)
    /\ UNCHANGED <<CONFIG, WHITELISTED_NODES, proofs, proofs__worker, PROOF_BY_HASH,
                   GATEWAY_PROOFS, height>>

\* The chain moves on to the next block; the contract is not called.
NextBlock ==
    /\ steps < MaxSteps
    /\ height' = height + 1
    /\ steps' = steps + 1
    /\ UNCHANGED <<CONFIG, WHITELISTED_NODES, UNLOCKING_DEPOSITS, proofs, proofs__worker, PROOF_BY_HASH,
                   GATEWAY_PROOFS, last, bank>>

(***************************************************************************)
(* Inputs.                                                                 *)
(***************************************************************************)
Coin(denom, amount) == [denom |-> denom, amount |-> amount]

\* Answers of the staking module: the bonded denom and the caller's delegations.
Staked(delegations) ==
    [bonded |-> [ok |-> TRUE, denom |-> NATIVE_DENOM, text |-> ""],
     delegations |-> [ok |-> TRUE, list |-> delegations]]
BondedDenomFails(text) ==
    [bonded |-> [ok |-> FALSE, denom |-> "", text |-> text],
     delegations |-> [ok |-> FALSE, list |-> <<>>]]
DelegationsFail ==
    [bonded |-> [ok |-> TRUE, denom |-> NATIVE_DENOM, text |-> ""],
     delegations |-> [ok |-> FALSE, list |-> <<>>]]

W1 == Did("worker", "w1")
W2 == Did("worker", "w2")
WUnregistered == Did("worker", "w9")
G1 == Did("gateway", "g1")
G2 == Did("gateway", "g2")
GUnregistered == Did("gateway", "g9")
Malformed == <<"did", "c4e", "worker">>

H1 == << <<"a", 64>> >>
H2 == << <<"b", 32>>, <<"7", 32>> >>
H3 == << <<"A", 64>> >>
HShort == << <<"a", 63>> >>
HLong == << <<"a", 65>> >>
HNotHex == << <<"a", 63>>, <<"g", 1>> >>
HEmpty == <<>>

Batch(n, gateway_did) ==
    [batch_id |-> n, gateway_did |-> gateway_did, device_count |-> n,
     snapshot_count |-> 2 * n, batch_merkle_root |-> H2]
Batches(gateways) == [i \in 1..Len(gateways) |-> Batch(i, gateways[i])]

NoMetadata == "null"
StoreProofMsg(worker_did, data_hash, tw, gateways, metadata_json) ==
    [worker_did |-> worker_did, data_hash |-> data_hash,
     tw_start |-> tw[1], tw_end |-> tw[2],
     batch_metadata |-> Batches(gateways), metadata_json |-> metadata_json]

\* Submissions that pass every check on a fresh ledger.  The second pair reuses
\* the hashes of the first with every other field changed.
ValidSubmissions ==
    {StoreProofMsg(W1, H1, <<1, 2>>, <<G1>>, NoMetadata),
     StoreProofMsg(W2, H2, <<2, 1>>, <<G1, G2>>, "{}"),
     StoreProofMsg(W2, H1, <<2, 1>>, <<G2, G2>>, "{}"),
     StoreProofMsg(W1, H2, <<1, 1>>, <<G2>>, NoMetadata),
     StoreProofMsg(W1, H3, <<1, 2>>, <<G2, G1>>, NoMetadata)}

\* Submissions that fail exactly one check.
SingleFaultSubmissions ==
    {StoreProofMsg(G1, H1, <<1, 2>>, <<G1>>, NoMetadata),
     StoreProofMsg(WUnregistered, H3, <<1, 2>>, <<G1>>, NoMetadata),
     StoreProofMsg(W1, H1, <<1, 2>>, <<>>, NoMetadata),
     StoreProofMsg(W1, H3, <<1, 2>>, <<G1, G2, G1>>, NoMetadata),
     StoreProofMsg(W1, H1, <<1, 2>>, <<G1, W1>>, NoMetadata),
     StoreProofMsg(W1, H3, <<1, 2>>, <<GUnregistered>>, NoMetadata),
     StoreProofMsg(W1, HEmpty, <<1, 2>>, <<G1>>, NoMetadata),
     StoreProofMsg(W1, HShort, <<1, 2>>, <<G1>>, NoMetadata),
     StoreProofMsg(W1, HLong, <<1, 2>>, <<G1>>, NoMetadata),
     StoreProofMsg(W1, HNotHex, <<1, 2>>, <<G1>>, NoMetadata)}

\* Submissions that fail several checks at once.
MultiFaultSubmissions ==
    {StoreProofMsg(Malformed, HEmpty, <<1, 2>>, <<>>, NoMetadata),
     StoreProofMsg(WUnregistered, H1, <<1, 2>>, <<G1, G1, G1>>, NoMetadata),
     StoreProofMsg(W1, HNotHex, <<1, 2>>, <<>>, NoMetadata),
     StoreProofMsg(W1, HShort, <<2, 1>>, <<G1, Malformed, G2>>, NoMetadata),
     StoreProofMsg(W1, HEmpty, <<1, 2>>, <<GUnregistered, W1>>, NoMetadata),
     StoreProofMsg(W2, H1, <<1, 2>>, <<W1, GUnregistered>>, "{}"),
     StoreProofMsg(G1, H2, <<1, 2>>, <<GUnregistered>>, NoMetadata),
     StoreProofMsg(WUnregistered, H2, <<1, 2>>, <<Malformed>>, NoMetadata)}

Submissions == ValidSubmissions \cup SingleFaultSubmissions \cup MultiFaultSubmissions

\* The submissions the calls are made with: valid ones that share a hash,
\* differ in worker and repeat a gateway, and one of each kind of fault.
CalledSubmissions ==
    {StoreProofMsg(W1, H1, <<1, 2>>, <<G1>>, NoMetadata),
     StoreProofMsg(W2, H2, <<2, 1>>, <<G1, G2>>, "{}"),
     StoreProofMsg(W2, H1, <<2, 1>>, <<G2, G2>>, "{}"),
     StoreProofMsg(W1, H3, <<1, 2>>, <<G2, G1>>, NoMetadata)} \cup
    {StoreProofMsg(WUnregistered, H3, <<1, 2>>, <<G1>>, NoMetadata),
     StoreProofMsg(W1, H3, <<1, 2>>, <<G1, G2, G1>>, NoMetadata),
     StoreProofMsg(W1, HNotHex, <<1, 2>>, <<G1>>, NoMetadata),
     StoreProofMsg(W2, H1, <<1, 2>>, <<W1, GUnregistered>>, "{}")}

\* The inputs the calls are made with.
Inputs ==
    [senders |-> Addrs,
     admins |-> {USER, BadAddr},
     targets |-> {ADMIN, USER, BadAddr},
     treasuries |-> {USER, BadAddr},
     reputations |-> {-1},
     thresholds |-> {1},
     submissions |-> CalledSubmissions,
     hashes |-> {H1, HShort},
     register_funds |-> {<<>>, <<Coin(NATIVE_DENOM, 100)>>},
     add_funds |-> {<<>>, <<Coin(NATIVE_DENOM, 100)>>},
     stakes |-> {Staked(<<Coin(NATIVE_DENOM, 999)>>),
                 Staked(<<Coin(NATIVE_DENOM, 600), Coin(NATIVE_DENOM, 400)>>)}]

\* The inputs of the registration exploration: every tier is reached, one
\* submission is stored; the administrator and the treasury stay as
\* instantiated (update_admin and configure_treasury are called with an
\* address that fails validation).
TierInputs ==
    [senders |-> Addrs,
     admins |-> {BadAddr},
     targets |-> {USER},
     treasuries |-> {BadAddr},
     reputations |-> {-1},
     thresholds |-> {1},
     submissions |-> {StoreProofMsg(W1, H1, <<1, 2>>, <<G1>>, NoMetadata),
                      StoreProofMsg(W1, HShort, <<1, 2>>, <<G1>>, NoMetadata)},
     hashes |-> {H1},
     register_funds |-> {<<Coin(NATIVE_DENOM, 100)>>,
                         <<Coin(OtherDenom, 1000), Coin(NATIVE_DENOM, 1200)>>},
     add_funds |-> {<<Coin(OtherDenom, 100)>>, <<Coin(NATIVE_DENOM, 400)>>},
     stakes |-> {Staked(<<Coin(NATIVE_DENOM, 999)>>),
                 Staked(<<Coin(NATIVE_DENOM, 600), Coin(NATIVE_DENOM, 400)>>),
                 Staked(<<Coin(NATIVE_DENOM, 7000), Coin(OtherDenom, 9000)>>),
                 Staked(<<Coin(NATIVE_DENOM, 10000)>>),
                 BondedDenomFails("connection refused")}]

NextWith(in) ==
    \/ \E s \in in.senders, a \in in.admins : UpdateAdmin(s, a)
    \/ \E s \in in.senders, a \in in.targets : WhitelistNode(s, a)
    \/ \E s \in in.senders, a \in in.targets : RemoveNode(s, a)
    \/ \E s \in in.senders, a \in in.targets, r \in in.reputations :
           UpdateNodeReputation(s, a, r)
    \/ \E s \in in.senders, t \in in.thresholds : UpdateMinReputationThreshold(s, t)
    \/ \E s \in in.senders, a \in in.treasuries : ConfigureTreasury(s, a)
    \/ \E s \in in.senders, m \in in.submissions : StoreProof(s, m)
    \/ \E s \in in.senders, h \in in.hashes : VerifyProof(s, h)
    \/ \E s \in in.senders, f \in in.register_funds, q \in in.stakes : RegisterNode(s, f, q)
    \/ \E s \in in.senders, f \in in.add_funds : AddDeposit(s, f)
    \/ \E s \in in.senders : UnlockDeposit(s)
    \/ \E s \in in.senders : ClaimUnlockedDeposit(s)
    \/ NextBlock

Init == InitWith({InstantiateMsg(TRUE, 1, 2)})
Next == NextWith(Inputs)
Spec == Init /\ [][Next]_vars

InitTiers == InitWith({InstantiateMsg(TRUE, 1, 2)})
NextTiers == NextWith(TierInputs)
SpecTiers == InitTiers /\ [][NextTiers]_vars


\* ---------------------------------------------------------------------------
\* Properties.  The predicates below restate the specification's conditions
\* on the stored state directly, without going through the handlers.
\* ---------------------------------------------------------------------------

\* The eligibility gate of the specification, on the current state.
Eligible(s) ==
    /\ s \in DOMAIN WHITELISTED_NODES
    /\ WHITELISTED_NODES[s].reputation >= CONFIG.min_reputation_threshold
    /\ WHITELISTED_NODES[s].tier # 0

\* The deposit requirement configured for tier t.
TierRequirement(t) ==
    CASE t = 1 -> CONFIG.deposit_tier1
      [] t = 2 -> CONFIG.deposit_tier2
      [] t = 3 -> CONFIG.deposit_tier3

\* tier in 1..3 and active deposit at least the tier's requirement.
Compliant(s) ==
    /\ WHITELISTED_NODES[s].tier \in 1..3
    /\ WHITELISTED_NODES[s].deposit >= TierRequirement(WHITELISTED_NODES[s].tier)

\* The stored state store_proof returns is the current one.
LedgerUntouched(r) ==
    /\ r.CONFIG = CONFIG
    /\ r.proofs = proofs
    /\ r.proofs__worker = proofs__worker
    /\ r.PROOF_BY_HASH = PROOF_BY_HASH
    /\ r.GATEWAY_PROOFS = GATEWAY_PROOFS

\* The ids of the stored proofs whose content hash is h.
StoredWithHash(h) == {i \in DOMAIN proofs : proofs[i].data_hash = h}

\* C1: in every reachable state no two stored proofs have the same content
\* hash: for all proof ids i # j, data_hash(i) # data_hash(j).
C1_UniqueHashes ==
    \A i, j \in DOMAIN proofs : i # j => proofs[i].data_hash # proofs[j].data_hash

\* Two proofs are stored, submitted by two different nodes.
C1_Witness ==
    \E i, j \in DOMAIN proofs : i # j /\ proofs[i].stored_by # proofs[j].stored_by

\* C2: store_proof succeeds only if, in the state of the call, the caller has
\* a Node record, its reputation is at least the minimum reputation threshold
\* and its tier is not 0; the check is made on the state of every call, so a
\* caller that was removed, or whose reputation is below the threshold, or
\* whose tier is 0, gets NodeNotWhitelisted / InsufficientNodeReputation /
\* NodeTierNotOperational whatever it stored before.
C2_GateOnEveryCall ==
    \A s \in Addrs : \A m \in Submissions :
      LET err == store_proof(s, m).err IN
      /\ err = OK => Eligible(s)
      /\ ~Has(WHITELISTED_NODES, s) => err = "NodeNotWhitelisted"
      /\ (/\ Has(WHITELISTED_NODES, s)
          /\ WHITELISTED_NODES[s].reputation < CONFIG.min_reputation_threshold)
         => err = "InsufficientNodeReputation"
      /\ (/\ Has(WHITELISTED_NODES, s)
          /\ WHITELISTED_NODES[s].reputation >= CONFIG.min_reputation_threshold
          /\ WHITELISTED_NODES[s].tier = 0)
         => err = "NodeTierNotOperational"

\* A node that stored a proof has just been put outside the gate by the admin
\* (reputation lowered, threshold raised, or node removed).
C2_Witness ==
    /\ last.op \in {"update_node_reputation", "update_min_reputation_threshold",
                    "remove_node"}
    /\ \E i \in DOMAIN proofs : ~Eligible(proofs[i].stored_by)

\* C3: for a caller that passes the eligibility gate with a tier in 1..3,
\* store_proof fails with NodeHasInsufficientDeposit whenever the node's
\* deposit is below the requirement of its tier, and stores nothing.
C3_InsufficientDeposit ==
    \A s \in Addrs : \A m \in Submissions :
      (/\ Eligible(s)
       /\ WHITELISTED_NODES[s].tier \in 1..3
       /\ WHITELISTED_NODES[s].deposit < TierRequirement(WHITELISTED_NODES[s].tier))
      => /\ store_proof(s, m).err = "NodeHasInsufficientDeposit"
         /\ LedgerUntouched(store_proof(s, m))

\* A node that was compliant at registration has unlocked its deposit and is
\* now below its tier's requirement while still passing the gate.
C3_Witness ==
    /\ last.op = "unlock_deposit"
    /\ Eligible(last.sender)
    /\ WHITELISTED_NODES[last.sender].deposit
         < TierRequirement(WHITELISTED_NODES[last.sender].tier)

\* The state part of C4: what a claim by s answers in the current state.
C4_ClaimAnswers ==
    \A s \in Addrs :
      LET r == claim_unlocked_deposit(s) IN
      /\ (Has(UNLOCKING_DEPOSITS, s) /\ height < UNLOCKING_DEPOSITS[s].release_at_block)
         => r.err = "DepositNotYetUnlocked" /\ r.UNLOCKING_DEPOSITS = UNLOCKING_DEPOSITS
      /\ (Has(UNLOCKING_DEPOSITS, s) /\ height >= UNLOCKING_DEPOSITS[s].release_at_block)
         => /\ r.err = OK
            /\ ~Has(r.UNLOCKING_DEPOSITS, s)
            /\ \A t \in Addrs \ {s} :
                 /\ Has(r.UNLOCKING_DEPOSITS, t) = Has(UNLOCKING_DEPOSITS, t)
                 /\ Has(UNLOCKING_DEPOSITS, t)
                    => r.UNLOCKING_DEPOSITS[t] = UNLOCKING_DEPOSITS[t]
      /\ ~Has(UNLOCKING_DEPOSITS, s)
         => r.err = "NoUnlockedDepositToClaim" /\ r.UNLOCKING_DEPOSITS = UNLOCKING_DEPOSITS
      /\ (last.op = "claim_unlocked_deposit" /\ last.sender = s)
         => ~Has(UNLOCKING_DEPOSITS, s)

\* The step part of C4: a pending record of s appears only by s's unlock.
C4_OnlyUnlockCreates ==
    \A s \in Addrs :
      (~Has(UNLOCKING_DEPOSITS, s) /\ Has(UNLOCKING_DEPOSITS', s))
      => (last'.op = "unlock_deposit" /\ last'.sender = s)

\* C4: with a pending UnlockingDeposit, claim_unlocked_deposit fails with
\* DepositNotYetUnlocked and changes nothing while height < release_at_block;
\* it succeeds and removes the record when height >= release_at_block, the
\* equal height included; after a successful claim the record is absent, a
\* claim without a record fails with NoUnlockedDepositToClaim, and only a new
\* unlock by the same participant creates a record again.
C4_ClaimOrdering == [](C4_ClaimAnswers) /\ [][C4_OnlyUnlockCreates]_vars

\* A claim has just succeeded at exactly the release height: the height equals
\* the unlock period, the least release height any unlock can give.
C4_Witness ==
    /\ last.op = "claim_unlocked_deposit"
    /\ height = CONFIG.deposit_unlock_period_blocks
    /\ ~Has(UNLOCKING_DEPOSITS, last.sender)


\* The minimum stake configured for tier t.
MinStake(t) ==
    CASE t = 1 -> CONFIG.min_stake_tier1
      [] t = 2 -> CONFIG.min_stake_tier2
      [] t = 3 -> CONFIG.min_stake_tier3

\* The greatest element of a non-empty set of numbers.
Greatest(S) == CHOOSE x \in S : \A y \in S : y <= x

\* Stake answers of an oracle that answers: amounts on either side of each
\* threshold, as one delegation or several, with foreign denominations mixed in.
OracleStakes ==
    {Staked(<<Coin(NATIVE_DENOM, a)>>) : a \in {0, 999, 1000, 4999, 5000, 7000, 9999,
                                                10000, 15000}}
    \cup {Staked(<<>>),
          Staked(<<Coin(NATIVE_DENOM, 600), Coin(NATIVE_DENOM, 400)>>),
          Staked(<<Coin(NATIVE_DENOM, 4000), Coin(OtherDenom, 9000),
                   Coin(NATIVE_DENOM, 3000)>>),
          Staked(<<Coin(OtherDenom, 20000)>>)}

\* The stake S the oracle reports: the delegations in the bonded denomination.
ReportedStake(q) == total_staked(q.delegations.list, q.bonded.denom)

\* Funds attached to a registration.
RegistrationFunds ==
    {<<>>, <<Coin(NATIVE_DENOM, 99)>>, <<Coin(NATIVE_DENOM, 100)>>,
     <<Coin(NATIVE_DENOM, 500)>>, <<Coin(NATIVE_DENOM, 1000)>>,
     <<Coin(OtherDenom, 1000), Coin(NATIVE_DENOM, 1200)>>}

\* C5: for the stake S the oracle reports, register_node assigns the greatest
\* tier in 1..3 whose minimum stake is <= S, and answers InsufficientStake,
\* creating or changing no Node, when S is below tier 1's minimum stake.  (A
\* caller already at an operational tier is refused before the stake is read;
\* the configured thresholds are non-decreasing.)
C5_TierFromStake ==
    \A s \in Addrs : \A f \in RegistrationFunds : \A q \in OracleStakes :
      LET r == register_node(s, f, q)
          S == ReportedStake(q)
          met == {t \in 1..3 : MinStake(t) <= S}
      IN ~(Has(WHITELISTED_NODES, s) /\ WHITELISTED_NODES[s].tier > 0)
         => /\ S < MinStake(1)
               => r.err = "InsufficientStake" /\ r.WHITELISTED_NODES = WHITELISTED_NODES
            /\ S >= MinStake(1)
               => r.err \in {OK, "DepositDoesNotMatchTierRequirement"}
            /\ r.err = OK
               => /\ r.WHITELISTED_NODES[s].tier = Greatest(met)
                  /\ r.info.tier_assigned = Greatest(met)
                  /\ r.info.native_stake_verified = S
            /\ r.err = "DepositDoesNotMatchTierRequirement"
               => r.info.tier = Greatest(met)

\* A registration with reported stake 7000 has been given tier 2.
C5_Witness ==
    /\ last.op = "register_node"
    /\ last.info.native_stake_verified = 7000
    /\ last.info.tier_assigned = 2
    /\ WHITELISTED_NODES[last.sender].tier = 2

\* C6: when use_whitelist is true, register_node by a participant without a
\* Node record made by the admin's whitelist_node does not succeed.
C6_WhitelistRequired ==
    \A s \in Addrs : \A f \in RegistrationFunds : \A q \in OracleStakes :
      (CONFIG.use_whitelist /\ ~Has(WHITELISTED_NODES, s))
      => register_node(s, f, q).err # OK

\* The worker identity is well-formed and registered.
WorkerOk(m) == DidHasPrefix(m.worker_did, "worker") /\ m.worker_did \in RegisteredDids

\* The batch sequence is non-empty and within the configured maximum.
BatchCountOk(m) ==
    Len(m.batch_metadata) >= 1 /\ Len(m.batch_metadata) <= CONFIG.max_batch_size

\* The gateway identity of batch i is well-formed and registered.
GatewayOk(m, i) ==
    /\ DidHasPrefix(m.batch_metadata[i].gateway_did, "gateway")
    /\ m.batch_metadata[i].gateway_did \in RegisteredDids

\* The content hash is non-empty, 64 characters, all hexadecimal.
HashOk(m) ==
    /\ m.data_hash # <<>>
    /\ StrLen(m.data_hash) = 64
    /\ \A k \in 1..Len(m.data_hash) : m.data_hash[k][1] \in HexDigits

\* The content hash of m is that of a stored proof.
HashUsed(m) == StoredWithHash(m.data_hash) # {}

\* C7 as stated: a submission by an eligible, deposit-compliant node whose
\* content hash is already in the ledger always fails with ProofAlreadyExists,
\* whatever its other fields.
C7_AlwaysConflict ==
    \A s \in Addrs : \A m \in Submissions :
      (Eligible(s) /\ Compliant(s) /\ HashUsed(m))
      => store_proof(s, m).err = "ProofAlreadyExists"

\* C7 amended: such a submission always fails and stores nothing; the error
\* is ProofAlreadyExists when its worker identity, batch sequence and gateway
\* identities pass their checks, and otherwise the error of the worker, batch
\* or gateway check that fails.
C7_ConflictAfterFieldChecks ==
    \A s \in Addrs : \A m \in Submissions :
      (Eligible(s) /\ Compliant(s) /\ HashUsed(m))
      => LET r == store_proof(s, m)
             fields_ok == /\ WorkerOk(m)
                          /\ BatchCountOk(m)
                          /\ \A i \in 1..Len(m.batch_metadata) : GatewayOk(m, i)
         IN /\ r.err # OK
            /\ LedgerUntouched(r)
            /\ fields_ok => r.err = "ProofAlreadyExists"
            /\ ~fields_ok => r.err \in {"InvalidDidFormat", "DidNotFound",
                                        "EmptyBatchMetadata", "TooManyBatches"}

\* A compliant node holds a stored hash, and both kinds of duplicate exist:
\* one with sound fields and one with a faulty worker, batch or gateway field.
C7_Witness ==
    \E s \in Addrs :
      /\ Eligible(s) /\ Compliant(s)
      /\ \E m \in Submissions :
           HashUsed(m) /\ store_proof(s, m).err = "ProofAlreadyExists"
      /\ \E m \in Submissions :
           HashUsed(m) /\ store_proof(s, m).err \in {"InvalidDidFormat", "DidNotFound",
                                                     "EmptyBatchMetadata", "TooManyBatches"}


\* C8: rejection of a duplicate is idempotent: a submission whose content hash
\* is already used is refused in every state in which the hash is stored, with
\* the same error for the same caller state and the same submission, and it
\* leaves the ledger, the hash, worker and gateway indexes and the proof
\* counter as they were, so exactly one stored proof has that hash.
C8_DuplicateIdempotent ==
    \A s \in Addrs : \A m \in Submissions :
      HashUsed(m)
      => LET r == store_proof(s, m) IN
         /\ r.err # OK
         /\ LedgerUntouched(r)
         /\ Cardinality(StoredWithHash(m.data_hash)) = 1
         /\ Cardinality({i \in DOMAIN r.proofs : r.proofs[i].data_hash = m.data_hash}) = 1
         /\ r.PROOF_BY_HASH[m.data_hash] = PROOF_BY_HASH[m.data_hash]
         /\ (Eligible(s) /\ Compliant(s) /\ m \in ValidSubmissions)
            => r.err = "ProofAlreadyExists"

\* The submission that was just stored is refused as a duplicate when its
\* submitter sends it again, while another proof is stored as well.
C8_Witness ==
    /\ last.op = "store_proof"
    /\ store_proof(last.sender, last.arg).err = "ProofAlreadyExists"
    /\ Cardinality(DOMAIN proofs) >= 2

\* The answer the seven ordered checks of the specification give for a
\* submission m by s: the error of the first check that fails, or OK.
FirstFailingCheck(s, m) ==
    LET bad_gateways == {i \in 1..Len(m.batch_metadata) : ~GatewayOk(m, i)}
        first_bad == CHOOSE i \in bad_gateways : \A j \in bad_gateways : i <= j
    IN
    CASE ~(s \in DOMAIN WHITELISTED_NODES) -> "NodeNotWhitelisted"
      [] OTHER ->
    CASE WHITELISTED_NODES[s].reputation < CONFIG.min_reputation_threshold
           -> "InsufficientNodeReputation"
      [] OTHER ->
    CASE ~(WHITELISTED_NODES[s].tier \in 1..3) -> "NodeTierNotOperational"
      [] OTHER ->
    CASE WHITELISTED_NODES[s].deposit < TierRequirement(WHITELISTED_NODES[s].tier)
           -> "NodeHasInsufficientDeposit"
      [] OTHER ->
    CASE ~DidHasPrefix(m.worker_did, "worker") -> "InvalidDidFormat"
      [] OTHER ->
    CASE ~(m.worker_did \in RegisteredDids) -> "DidNotFound"
      [] OTHER ->
    CASE Len(m.batch_metadata) = 0 -> "EmptyBatchMetadata"
      [] OTHER ->
    CASE Len(m.batch_metadata) > CONFIG.max_batch_size -> "TooManyBatches"
      [] OTHER ->
    CASE bad_gateways # {} ->
           (IF ~DidHasPrefix(m.batch_metadata[first_bad].gateway_did, "gateway")
            THEN "InvalidDidFormat" ELSE "DidNotFound")
      [] OTHER ->
    CASE ~HashOk(m) -> "InvalidInput"
      [] OTHER ->
    CASE HashUsed(m) -> "ProofAlreadyExists"
      [] OTHER -> OK

GatewaysOf(p) == {p.batch_metadata[i].gateway_did : i \in 1..Len(p.batch_metadata)}

\* The gateway and worker identities a query may name.
QueriedDids == RegisteredDids \cup {GUnregistered, WUnregistered, Malformed}

\* How many times the proof with this id occurs in a page of proofs.
Occurrences(page, id) == Cardinality({k \in 1..Len(page) : page[k].id = id})

\* C10: for every stored proof p and every gateway identity g, the gateway
\* index holds (g, p.id) iff some batch of p names g, and the by-gateway list
\* of g returns p exactly once then and not at all otherwise; the by-worker
\* list of w returns p iff p.worker_did = w; proof_by_hash(p.data_hash)
\* returns the same record as proof(p.id); and no index names an id that is
\* not stored.
C10_IndexConsistency ==
    /\ \A id \in DOMAIN proofs : \A g \in QueriedDids :
         /\ (<<g, id>> \in GATEWAY_PROOFS) <=> (g \in GatewaysOf(proofs[id]))
         /\ query_proofs_by_gateway(g, None, None).ok
         /\ Occurrences(query_proofs_by_gateway(g, None, None).proofs, id)
              = (IF g \in GatewaysOf(proofs[id]) THEN 1 ELSE 0)
    /\ \A id \in DOMAIN proofs : \A w \in QueriedDids :
         /\ (<<w, id>> \in proofs__worker) <=> (proofs[id].worker_did = w)
         /\ query_proofs_by_worker(w, None, None).ok
         /\ Occurrences(query_proofs_by_worker(w, None, None).proofs, id)
              = (IF proofs[id].worker_did = w THEN 1 ELSE 0)
    /\ \A id \in DOMAIN proofs :
         /\ proofs[id].id = id
         /\ proof_by_hash(proofs[id].data_hash).ok
         /\ proof_by_hash(proofs[id].data_hash) = proof(id)
         /\ proof(id).proof = ProofResponse(proofs[id])
    /\ \A e \in GATEWAY_PROOFS \cup proofs__worker : e[2] \in DOMAIN proofs
    /\ \A h \in DOMAIN PROOF_BY_HASH : PROOF_BY_HASH[h] \in DOMAIN proofs

\* Two proofs are stored, one of them naming the same gateway in two batches,
\* and the two do not name the same gateways.
C10_Witness ==
    \E i, j \in DOMAIN proofs :
      /\ i # j
      /\ Len(proofs[i].batch_metadata) = 2
      /\ Cardinality(GatewaysOf(proofs[i])) = 1
      /\ GatewaysOf(proofs[j]) # GatewaysOf(proofs[i])


\* Arguments of the admin commands and funds of the node commands, the
\* invalid ones included.
AddressArgs == Addrs \cup {BadAddr}
ReputationArgs == {-1, 0, 1}
AttachedFunds ==
    {<<>>, <<Coin(NATIVE_DENOM, 0)>>, <<Coin(NATIVE_DENOM, 99)>>,
     <<Coin(NATIVE_DENOM, 100)>>, <<Coin(OtherDenom, 100)>>,
     <<Coin(OtherDenom, 100), Coin(NATIVE_DENOM, 400)>>}
StakeAnswers ==
    {Staked(<<Coin(NATIVE_DENOM, 999)>>),
     Staked(<<Coin(NATIVE_DENOM, 600), Coin(NATIVE_DENOM, 400)>>),
     Staked(<<Coin(NATIVE_DENOM, 7000), Coin(OtherDenom, 9000)>>),
     BondedDenomFails("Unexpected custom query"),
     BondedDenomFails("connection refused"), DelegationsFail}

\* What every handler returns when it returns an error, in the current state.
C11_FailingHandlers ==
    /\ \A s \in Addrs : \A a \in AddressArgs : \A n \in ReputationArgs :
         /\ update_admin(s, a).err # OK => update_admin(s, a).CONFIG = CONFIG
         /\ whitelist_node(s, a).err # OK
            => whitelist_node(s, a).WHITELISTED_NODES = WHITELISTED_NODES
         /\ remove_node(s, a).err # OK
            => remove_node(s, a).WHITELISTED_NODES = WHITELISTED_NODES
         /\ update_node_reputation(s, a, n).err # OK
            => update_node_reputation(s, a, n).WHITELISTED_NODES = WHITELISTED_NODES
         /\ update_min_reputation_threshold(s, n).err # OK
            => update_min_reputation_threshold(s, n).CONFIG = CONFIG
         /\ configure_treasury(s, a).err # OK => configure_treasury(s, a).CONFIG = CONFIG
    /\ \A s \in Addrs : \A m \in Submissions :
         store_proof(s, m).err # OK => LedgerUntouched(store_proof(s, m))
    /\ \A s \in Addrs : \A f \in AttachedFunds : \A q \in StakeAnswers :
         /\ register_node(s, f, q).err # OK
            => register_node(s, f, q).WHITELISTED_NODES = WHITELISTED_NODES
         /\ add_deposit(s, f).err # OK
            => add_deposit(s, f).WHITELISTED_NODES = WHITELISTED_NODES
    /\ \A s \in Addrs :
         /\ unlock_deposit(s).err # OK
            => /\ unlock_deposit(s).WHITELISTED_NODES = WHITELISTED_NODES
               /\ unlock_deposit(s).UNLOCKING_DEPOSITS = UNLOCKING_DEPOSITS
         /\ claim_unlocked_deposit(s).err # OK
            => claim_unlocked_deposit(s).UNLOCKING_DEPOSITS = UNLOCKING_DEPOSITS

\* A step that commits no call and passes no block changes nothing stored.
C11_FailedStep ==
    steps' = steps
    => UNCHANGED <<CONFIG, WHITELISTED_NODES, UNLOCKING_DEPOSITS, proofs, proofs__worker,
                   PROOF_BY_HASH, GATEWAY_PROOFS>>

\* C11: every call that returns an error, of any admin or node command and
\* for any reason, leaves the configuration, the node registry, the unlocking
\* deposits and the proof ledger with its indexes as they were; no failing
\* store_proof advances the proof counter, no failing unlock_deposit zeroes a
\* deposit.
C11_ErrorsChangeNothing == [](C11_FailingHandlers) /\ [][C11_FailedStep]_vars

\* A node with a positive proof counter behind it has a pending unlock, so
\* that its unlock_deposit, add_deposit and store_proof all fail in a state
\* with something to lose.
C11_Witness ==
    \E s \in Addrs :
      /\ CONFIG.proof_count > 0
      /\ Has(WHITELISTED_NODES, s)
      /\ unlock_deposit(s).err = "DepositAlreadyUnlocking"
      /\ add_deposit(s, <<Coin(NATIVE_DENOM, 100)>>).err # OK
      /\ \E m \in ValidSubmissions : store_proof(s, m).err # OK


\* The inputs of the administration exploration: the administrator changes
\* hands and back, with the whitelist flag on and off.
AdminInputs ==
    [senders |-> Addrs,
     admins |-> {ADMIN, USER},
     targets |-> {USER, BadAddr},
     treasuries |-> {USER},
     reputations |-> {-1, 1},
     thresholds |-> {1},
     submissions |-> {StoreProofMsg(W1, H1, <<1, 2>>, <<G1>>, NoMetadata)},
     hashes |-> {H1},
     register_funds |-> {<<Coin(NATIVE_DENOM, 100)>>},
     add_funds |-> {<<Coin(NATIVE_DENOM, 100)>>},
     stakes |-> {Staked(<<Coin(NATIVE_DENOM, 1000)>>)}]

InitAdmin == InitWith({InstantiateMsg(TRUE, 1, 2), InstantiateMsg(FALSE, 1, 2)})
NextAdmin == NextWith(AdminInputs)
SpecAdmin == InitAdmin /\ [][NextAdmin]_vars

\* C12: every admin command (update_admin, whitelist_node, remove_node,
\* update_node_reputation, update_min_reputation_threshold,
\* configure_treasury) from a caller other than the current administrator
\* fails with AdminOnlyOperation and changes nothing, whatever its arguments
\* and whether or not the whitelist is enabled.
C12_AdminOnly ==
    \A s \in Addrs : \A a \in AddressArgs : \A n \in ReputationArgs :
      s # CONFIG.admin
      => /\ update_admin(s, a) = [err |-> "AdminOnlyOperation", CONFIG |-> CONFIG]
         /\ whitelist_node(s, a)
              = [err |-> "AdminOnlyOperation", WHITELISTED_NODES |-> WHITELISTED_NODES]
         /\ remove_node(s, a)
              = [err |-> "AdminOnlyOperation", WHITELISTED_NODES |-> WHITELISTED_NODES]
         /\ update_node_reputation(s, a, n)
              = [err |-> "AdminOnlyOperation", WHITELISTED_NODES |-> WHITELISTED_NODES]
         /\ update_min_reputation_threshold(s, n)
              = [err |-> "AdminOnlyOperation", CONFIG |-> CONFIG]
         /\ configure_treasury(s, a) = [err |-> "AdminOnlyOperation", CONFIG |-> CONFIG]

\* With the whitelist disabled, the administration has passed to USER, who
\* has a Node record: the former administrator is now refused, also for
\* commands whose arguments are valid and whose target exists.
C12_Witness ==
    /\ ~CONFIG.use_whitelist
    /\ CONFIG.admin = USER
    /\ Has(WHITELISTED_NODES, USER)
    /\ remove_node(ADMIN, USER).err = "AdminOnlyOperation"
    /\ remove_node(USER, USER).err = OK



\* Stakes that select tier 0, 1, 1, 2 and 3.
TierStakes ==
    {Staked(<<Coin(NATIVE_DENOM, 999)>>),
     Staked(<<Coin(NATIVE_DENOM, 600), Coin(NATIVE_DENOM, 400)>>),
     Staked(<<Coin(NATIVE_DENOM, 4999)>>),
     Staked(<<Coin(NATIVE_DENOM, 7000), Coin(OtherDenom, 9000)>>),
     Staked(<<Coin(NATIVE_DENOM, 10000)>>)}

C14_NoReRegistration ==
    \A s \in Addrs : \A f \in RegistrationFunds \cup AttachedFunds :
      \A q \in TierStakes \cup StakeAnswers :
        (Has(WHITELISTED_NODES, s) /\ WHITELISTED_NODES[s].tier > 0)
        => /\ register_node(s, f, q).err = "CustomError"
           /\ register_node(s, f, q).info = [message |-> "Node already registered"]
           /\ register_node(s, f, q).WHITELISTED_NODES = WHITELISTED_NODES

\* A node of tier 2 or 3 whose reputation the admin has changed is refused a
\* registration that a newcomer with the same funds and stake is granted.
C14_Witness ==
    \E s \in Addrs : \E t \in Addrs \ {s} :
      /\ Has(WHITELISTED_NODES, s)
      /\ WHITELISTED_NODES[s].tier >= 2
      /\ WHITELISTED_NODES[s].reputation # 0
      /\ ~Has(WHITELISTED_NODES, t)
      /\ register_node(s, <<Coin(NATIVE_DENOM, 1000)>>,
                       Staked(<<Coin(NATIVE_DENOM, 10000)>>)).err = "CustomError"
      /\ register_node(t, <<Coin(NATIVE_DENOM, 1000)>>,
                       Staked(<<Coin(NATIVE_DENOM, 10000)>>)).err = OK


\* The inputs of the deposit exploration: deposits of several amounts, with
\* and without a foreign denomination, under unlock periods of 0 and 1 block;
\* the administrator and the treasury stay as instantiated.
DepositInputs ==
    [senders |-> Addrs,
     admins |-> {BadAddr},
     targets |-> {USER},
     treasuries |-> {BadAddr},
     reputations |-> {-1},
     thresholds |-> {1},
     submissions |-> {StoreProofMsg(W1, H1, <<1, 2>>, <<G1>>, NoMetadata)},
     hashes |-> {H1},
     register_funds |-> {<<Coin(NATIVE_DENOM, 100)>>},
     add_funds |-> {<<Coin(NATIVE_DENOM, 50)>>, <<Coin(OtherDenom, 100)>>,
                    <<Coin(OtherDenom, 100), Coin(NATIVE_DENOM, 400)>>},
     stakes |-> {Staked(<<Coin(NATIVE_DENOM, 1000)>>)}]

InitDeposits == InitWith({InstantiateMsg(TRUE, 0, 2), InstantiateMsg(TRUE, 1, 2)})
NextDeposits == NextWith(DepositInputs)
SpecDeposits == InitDeposits /\ [][NextDeposits]_vars

\* The registry m with the entry of s left out.
Without(m, s) == [k \in (DOMAIN m) \ {s} |-> m[k]]

\* C15: unlock_deposit by a participant with a Node, no pending unlock and
\* deposit d > 0 creates an UnlockingDeposit with amount d and release height
\* = current height + unlock period and sets the node's deposit to 0, all in
\* the one call; it fails with NodeNotRegistered without a Node, else with
\* DepositAlreadyUnlocking when a record is pending, else with
\* NoDepositToUnlock when d = 0.
C15_UnlockDeposit ==
    \A s \in Addrs :
      LET r == unlock_deposit(s) IN
      /\ ~Has(WHITELISTED_NODES, s) => r.err = "NodeNotRegistered"
      /\ (Has(WHITELISTED_NODES, s) /\ Has(UNLOCKING_DEPOSITS, s))
         => r.err = "DepositAlreadyUnlocking"
      /\ (Has(WHITELISTED_NODES, s) /\ ~Has(UNLOCKING_DEPOSITS, s)
          /\ WHITELISTED_NODES[s].deposit = 0)
         => r.err = "NoDepositToUnlock"
      /\ (Has(WHITELISTED_NODES, s) /\ ~Has(UNLOCKING_DEPOSITS, s)
          /\ WHITELISTED_NODES[s].deposit > 0)
         => /\ r.err = OK
            /\ r.UNLOCKING_DEPOSITS[s]
                 = [owner |-> s, amount |-> WHITELISTED_NODES[s].deposit,
                    release_at_block |-> height + CONFIG.deposit_unlock_period_blocks]
            /\ Without(r.UNLOCKING_DEPOSITS, s) = Without(UNLOCKING_DEPOSITS, s)
            /\ r.WHITELISTED_NODES[s] = [WHITELISTED_NODES[s] EXCEPT !.deposit = 0]
            /\ Without(r.WHITELISTED_NODES, s) = Without(WHITELISTED_NODES, s)
            /\ r.info.unlocking_amount = WHITELISTED_NODES[s].deposit
            /\ r.info.release_at_block = height + CONFIG.deposit_unlock_period_blocks

\* An unlock made after block 0 under a positive unlock period has moved a
\* deposit that grew by add_deposit into a pending record.
C15_Witness ==
    /\ last.op = "unlock_deposit"
    /\ height > 0
    /\ CONFIG.deposit_unlock_period_blocks > 0
    /\ UNLOCKING_DEPOSITS[last.sender].amount > CONFIG.deposit_tier1
    /\ UNLOCKING_DEPOSITS[last.sender].release_at_block
         = height + CONFIG.deposit_unlock_period_blocks
    /\ WHITELISTED_NODES[last.sender].deposit = 0


\* A call by s was committed in this step.
Committed(op, s) ==
    /\ steps' = steps + 1
    /\ height' = height
    /\ last'.op = op
    /\ last'.sender = s

\* The state part of C16: with a record pending, add_deposit and
\* unlock_deposit by its owner are refused; without one they are not refused
\* for that reason.
C16_PendingExcludes ==
    \A s \in Addrs : \A f \in AttachedFunds :
      /\ Has(UNLOCKING_DEPOSITS, s)
         => /\ add_deposit(s, f).err
                 = (IF Has(WHITELISTED_NODES, s) THEN "DepositAlreadyUnlocking"
                    ELSE "NodeNotRegistered")
            /\ unlock_deposit(s).err
                 = (IF Has(WHITELISTED_NODES, s) THEN "DepositAlreadyUnlocking"
                    ELSE "NodeNotRegistered")
            /\ add_deposit(s, f).WHITELISTED_NODES = WHITELISTED_NODES
            /\ unlock_deposit(s).UNLOCKING_DEPOSITS = UNLOCKING_DEPOSITS
      /\ (~Has(UNLOCKING_DEPOSITS, s) /\ Has(WHITELISTED_NODES, s))
         => /\ add_deposit(s, f).err # "DepositAlreadyUnlocking"
            /\ unlock_deposit(s).err # "DepositAlreadyUnlocking"
            /\ AttachedNative(f) > 0 => add_deposit(s, f).err = OK
            /\ WHITELISTED_NODES[s].deposit > 0 => unlock_deposit(s).err = OK

\* The step part of C16: a pending record stays as it is, or is removed by
\* its owner's committed claim.
C16_OnlyClaimRemoves ==
    \A s \in Addrs :
      Has(UNLOCKING_DEPOSITS, s)
      => \/ /\ Has(UNLOCKING_DEPOSITS', s)
            /\ UNLOCKING_DEPOSITS'[s] = UNLOCKING_DEPOSITS[s]
         \/ /\ ~Has(UNLOCKING_DEPOSITS', s)
            /\ Committed("claim_unlocked_deposit", s)

\* C16: while a participant has a pending UnlockingDeposit, every add_deposit
\* and every unlock_deposit by that participant is rejected
\* (DepositAlreadyUnlocking when it has a Node) and the record's amount and
\* release height stay unchanged; only that participant's successful claim
\* removes the record, after which add_deposit and unlock_deposit are possible
\* again.
C16_PendingUnlock == [](C16_PendingExcludes) /\ [][C16_OnlyClaimRemoves]_vars

\* A claim has just removed the record of a participant that still has its
\* Node: add_deposit is accepted again, and unlock_deposit is refused only
\* because there is no deposit yet.
C16_Witness ==
    /\ last.op = "claim_unlocked_deposit"
    /\ Has(WHITELISTED_NODES, last.sender)
    /\ ~Has(UNLOCKING_DEPOSITS, last.sender)
    /\ add_deposit(last.sender, <<Coin(NATIVE_DENOM, 50)>>).err = OK
    /\ unlock_deposit(last.sender).err = "NoDepositToUnlock"


\* The state part of C17: what a successful claim by s returns.
C17_OneTransfer ==
    \A s \in Addrs :
      claim_unlocked_deposit(s).err = OK
      => /\ claim_unlocked_deposit(s).info.messages
              = <<[to_address |-> s, denom |-> NATIVE_DENOM,
                   amount |-> UNLOCKING_DEPOSITS[s].amount]>>
         /\ claim_unlocked_deposit(s).info.claimed_amount = UNLOCKING_DEPOSITS[s].amount
         /\ ~Has(claim_unlocked_deposit(s).UNLOCKING_DEPOSITS, s)

\* The step part of C17: the transfer of a committed claim is that of the
\* record it removes; a record is created by its owner's unlock_deposit with
\* the deposit the node had then; and a node's deposit is set by register_node
\* to the amount attached, grows by add_deposit by the amount attached, and
\* otherwise changes only by its owner's unlock_deposit.
C17_AmountFollowsDeposit ==
    \A s \in Addrs :
      /\ Committed("claim_unlocked_deposit", s)
         => /\ Len(last'.info.messages) = 1
            /\ last'.info.messages[1].to_address = s
            /\ last'.info.messages[1].denom = NATIVE_DENOM
            /\ last'.info.messages[1].amount = UNLOCKING_DEPOSITS[s].amount
            /\ ~Has(UNLOCKING_DEPOSITS', s)
      /\ (~Has(UNLOCKING_DEPOSITS, s) /\ Has(UNLOCKING_DEPOSITS', s))
         => /\ Committed("unlock_deposit", s)
            /\ UNLOCKING_DEPOSITS'[s].amount = WHITELISTED_NODES[s].deposit
            /\ UNLOCKING_DEPOSITS'[s].owner = s
      /\ (/\ Has(WHITELISTED_NODES, s) /\ Has(WHITELISTED_NODES', s)
          /\ WHITELISTED_NODES'[s].deposit # WHITELISTED_NODES[s].deposit)
         => \/ /\ Committed("unlock_deposit", s)
               /\ WHITELISTED_NODES'[s].deposit = 0
            \/ /\ Committed("add_deposit", s)
               /\ WHITELISTED_NODES'[s].deposit
                    = WHITELISTED_NODES[s].deposit + AttachedNative(last'.arg.funds)
            \/ /\ Committed("register_node", s)
               /\ WHITELISTED_NODES'[s].deposit = AttachedNative(last'.arg.funds)

\* C17: a successful claim_unlocked_deposit issues exactly one funds transfer,
\* to the caller, in the deposit denomination, for the amount of the removed
\* UnlockingDeposit, which is the deposit the node had when unlock_deposit
\* was called: the amount its registration locked plus the add_deposit
\* amounts since.
C17_ClaimTransfer == [](C17_OneTransfer) /\ [][C17_AmountFollowsDeposit]_vars

\* A claim has paid out a deposit larger than any single registration or
\* add_deposit of the exploration locks on its own: a sum of several.
C17_Witness ==
    /\ last.op = "claim_unlocked_deposit"
    /\ last.info.messages[1].amount \in {150, 500, 450}
    /\ last.info.messages[1].to_address = last.sender
    /\ WHITELISTED_NODES[last.sender].deposit = 0


\* The fields of a Node other than deposit and last_updated.
NodeIdentity(n) ==
    [address |-> n.address, reputation |-> n.reputation, added_at |-> n.added_at,
     tier |-> n.tier, proof_count |-> n.proof_count, disputed_proofs |-> n.disputed_proofs]

C19_SequentialIds ==
    /\ DOMAIN proofs = 0..(CONFIG.proof_count - 1)
    /\ CONFIG.proof_count = Cardinality(DOMAIN proofs)
    /\ \A i \in DOMAIN proofs : proofs[i].id = i
    /\ \A s \in Addrs : \A m \in Submissions :
         store_proof(s, m).err = OK
         => /\ store_proof(s, m).info.proof_id = CONFIG.proof_count
            /\ store_proof(s, m).CONFIG.proof_count = CONFIG.proof_count + 1
            /\ DOMAIN store_proof(s, m).proofs = DOMAIN proofs \cup {CONFIG.proof_count}
            /\ store_proof(s, m).proofs[CONFIG.proof_count].id = CONFIG.proof_count
    /\ last.op = "store_proof" => last.info.proof_id = CONFIG.proof_count - 1

\* Three proofs have been accepted, the last with id 2.
C19_Witness ==
    /\ last.op = "store_proof"
    /\ last.info.proof_id = 2
    /\ CONFIG.proof_count = 3
    /\ DOMAIN proofs = {0, 1, 2}

\* C20: the proof ledger is append-only: a stored proof stays stored under
\* its id with the same field values in every later state, and its hash,
\* worker and gateway index entries stay; no command, remove_node of its
\* submitter included, changes or deletes it.
C20_AppendOnly ==
    [][\A i \in DOMAIN proofs :
         /\ i \in DOMAIN proofs'
         /\ proofs'[i] = proofs[i]
         /\ Has(PROOF_BY_HASH', proofs[i].data_hash)
         /\ PROOF_BY_HASH'[proofs[i].data_hash] = i
         /\ <<proofs[i].worker_did, i>> \in proofs__worker'
         /\ \A g \in GatewaysOf(proofs[i]) : <<g, i>> \in GATEWAY_PROOFS']_vars

\* The admin has just removed the node that submitted a stored proof, and
\* another proof was stored after the first.
C20_Witness ==
    /\ last.op = "remove_node"
    /\ Cardinality(DOMAIN proofs) >= 2
    /\ \E i \in DOMAIN proofs :
         /\ ~Has(WHITELISTED_NODES, proofs[i].stored_by)
         /\ proof_by_hash(proofs[i].data_hash) = proof(i)


\* Submissions that differ only in the number of batches (none up to four,
\* the gateways registered ones) and in the content hash.
BatchBoundSubmissions ==
    {StoreProofMsg(W1, h, <<1, 2>>, gs, NoMetadata) :
       h \in {H1, H3},
       gs \in {<<>>, <<G1>>, <<G2>>, <<G2, G1>>, <<G1, G1>>,
               <<G1, G2, G1>>, <<G2, G2, G2, G2>>}}

\* m passes every check of the specification except, possibly, the batch bound.
OtherwiseValid(m) ==
    /\ WorkerOk(m)
    /\ \A i \in 1..Len(m.batch_metadata) : GatewayOk(m, i)
    /\ HashOk(m)
    /\ ~HashUsed(m)

\* C21: for an otherwise valid submission by an eligible, deposit-compliant
\* node, store_proof succeeds when the batch sequence has between one and
\* exactly max_batch_size entries, fails with TooManyBatches reporting the
\* count when it has max_batch_size + 1 or more, and fails with
\* EmptyBatchMetadata when it has none.
C21_BatchBound ==
    \A s \in Addrs : \A m \in BatchBoundSubmissions :
      (Eligible(s) /\ Compliant(s) /\ OtherwiseValid(m))
      => LET r == store_proof(s, m)
             n == Len(m.batch_metadata)
         IN /\ n = 0 => r.err = "EmptyBatchMetadata"
            /\ (n >= 1 /\ n <= CONFIG.max_batch_size) => r.err = OK
            /\ n >= CONFIG.max_batch_size + 1
               => r.err = "TooManyBatches" /\ r.info = [count |-> n]

\* A proof with exactly max_batch_size batches has just been stored, and its
\* submitter can still send otherwise valid submissions with no batch, with
\* the maximum and with one more.
C21_Witness ==
    /\ last.op = "store_proof"
    /\ Len(last.arg.batch_metadata) = CONFIG.max_batch_size
    /\ Eligible(last.sender) /\ Compliant(last.sender)
    /\ \E m \in BatchBoundSubmissions :
         OtherwiseValid(m) /\ Len(m.batch_metadata) = CONFIG.max_batch_size
         /\ store_proof(last.sender, m).err = OK
    /\ \E m \in BatchBoundSubmissions :
         OtherwiseValid(m) /\ Len(m.batch_metadata) = CONFIG.max_batch_size + 1
         /\ store_proof(last.sender, m).err = "TooManyBatches"
    /\ \E m \in BatchBoundSubmissions :
         OtherwiseValid(m) /\ Len(m.batch_metadata) = 0
         /\ store_proof(last.sender, m).err = "EmptyBatchMetadata"


\* Submissions whose identities are of the wrong category, the wrong method
\* or empty, with every other field valid.
CategorySubmissions ==
    {StoreProofMsg(G2, H3, <<1, 2>>, <<G1>>, NoMetadata),
     StoreProofMsg(W1, H3, <<1, 2>>, <<W2>>, NoMetadata),
     StoreProofMsg(W1, H3, <<1, 2>>, <<G1, W1>>, NoMetadata),
     StoreProofMsg(G1, H3, <<1, 2>>, <<W1>>, NoMetadata),
     StoreProofMsg(<<"did", "eth", "worker", "w1">>, H3, <<1, 2>>, <<G1>>, NoMetadata),
     StoreProofMsg(W1, H3, <<1, 2>>, <<<<"did", "eth", "gateway", "g1">>>>, NoMetadata),
     StoreProofMsg(<<>>, H3, <<1, 2>>, <<G1>>, NoMetadata)}

\* p (a stored proof or a submission) is well-formed: worker identity
\* did:c4e:worker:<id>, every batch's gateway identity did:c4e:gateway:<id>,
\* between one and max_batch_size batches, a content hash of exactly 64
\* hexadecimal characters.
WellFormed(p) ==
    /\ Len(p.worker_did) >= 4
    /\ <<p.worker_did[1], p.worker_did[2], p.worker_did[3]>> = <<"did", "c4e", "worker">>
    /\ \A i \in 1..Len(p.batch_metadata) :
         LET g == p.batch_metadata[i].gateway_did IN
         Len(g) >= 4 /\ <<g[1], g[2], g[3]>> = <<"did", "c4e", "gateway">>
    /\ Len(p.batch_metadata) >= 1
    /\ Len(p.batch_metadata) <= CONFIG.max_batch_size
    /\ StrLen(p.data_hash) = 64
    /\ \A k \in 1..Len(p.data_hash) : p.data_hash[k][1] \in HexDigits

\* C22: every stored proof is well-formed in every reachable state: its
\* worker identity has the form did:c4e:worker:<id>, every batch's gateway
\* identity has the form did:c4e:gateway:<id>, its batch sequence is non-empty
\* and no longer than max_batch_size, and its content hash is exactly 64
\* hexadecimal characters; store_proof accepts no submission that is not, and
\* rejects a worker-category identity given as gateway and a gateway-category
\* identity given as worker with InvalidDidFormat.
C22_StoredProofsWellFormed ==
    /\ \A id \in DOMAIN proofs : WellFormed(proofs[id])
    /\ \A s \in Addrs : \A m \in Submissions \cup CategorySubmissions :
         LET r == store_proof(s, m) IN
         /\ r.err = OK => WellFormed(m) /\ WellFormed(r.proofs[r.info.proof_id])
         /\ (Eligible(s) /\ Compliant(s) /\ m \in CategorySubmissions)
            => r.err = "InvalidDidFormat"

\* Two proofs are stored, one of them with two batches, and the node that
\* stored the latest has submissions of the wrong category refused.
C22_Witness ==
    /\ last.op = "store_proof"
    /\ Cardinality(DOMAIN proofs) >= 2
    /\ \E id \in DOMAIN proofs : Len(proofs[id].batch_metadata) = 2
    /\ Eligible(last.sender) /\ Compliant(last.sender)
    /\ \A m \in CategorySubmissions :
         store_proof(last.sender, m).err = "InvalidDidFormat"


\* Answers of a staking module that fails: the BondedDenom query refused with
\* different error texts, or the AllDelegations query refused.
OracleFailures ==
    {BondedDenomFails("connection refused"),
     BondedDenomFails("Unexpected custom query"),
     BondedDenomFails("BondedDenom"),
     DelegationsFail}

\* C23: when the stake oracle query fails, register_node does not admit the
\* caller on an assumed stake: the call fails and no Node record is created
\* or changed.
C23_NoAssumedStake ==
    \A s \in Addrs : \A f \in RegistrationFunds : \A q \in OracleFailures :
      LET r == register_node(s, f, q) IN
      /\ r.err # OK
      /\ r.WHITELISTED_NODES = WHITELISTED_NODES


\* C24: whitelist_node by the administrator for an identifier with no Node
\* record creates a Node with tier 0, deposit 0 and reputation 0 and leaves
\* every other record as it was; when a Node record exists for the
\* identifier, a self-registered operational one included, it fails with
\* NodeAlreadyWhitelisted and changes nothing, so that no record's tier,
\* deposit or reputation is reset by whitelisting.
C24_WhitelistNode ==
    \A a \in Addrs :
      LET r == whitelist_node(CONFIG.admin, a) IN
      /\ ~(a \in DOMAIN WHITELISTED_NODES)
         => /\ r.err = OK
            /\ DOMAIN r.WHITELISTED_NODES = DOMAIN WHITELISTED_NODES \cup {a}
            /\ r.WHITELISTED_NODES[a].tier = 0
            /\ r.WHITELISTED_NODES[a].deposit = 0
            /\ r.WHITELISTED_NODES[a].reputation = 0
            /\ \A b \in DOMAIN WHITELISTED_NODES :
                 r.WHITELISTED_NODES[b] = WHITELISTED_NODES[b]
      /\ a \in DOMAIN WHITELISTED_NODES
         => /\ r.err = "NodeAlreadyWhitelisted"
            /\ r.WHITELISTED_NODES = WHITELISTED_NODES

\* The administrator has just whitelisted one identifier while another one
\* holds an operational node with a deposit, which whitelisting would refuse.
C24_Witness ==
    /\ last.op = "whitelist_node"
    /\ last.arg.node_address \in DOMAIN WHITELISTED_NODES
    /\ WHITELISTED_NODES[last.arg.node_address].tier = 0
    /\ \E a \in DOMAIN WHITELISTED_NODES :
         /\ WHITELISTED_NODES[a].tier >= 1
         /\ WHITELISTED_NODES[a].deposit > 0
         /\ whitelist_node(CONFIG.admin, a).err = "NodeAlreadyWhitelisted"


\* Every admin command by s is refused for lack of authority.
Refused(s) ==
    \A a \in AddressArgs : \A n \in ReputationArgs :
      /\ update_admin(s, a).err = "AdminOnlyOperation"
      /\ whitelist_node(s, a).err = "AdminOnlyOperation"
      /\ remove_node(s, a).err = "AdminOnlyOperation"
      /\ update_node_reputation(s, a, n).err = "AdminOnlyOperation"
      /\ update_min_reputation_threshold(s, n).err = "AdminOnlyOperation"
      /\ configure_treasury(s, a).err = "AdminOnlyOperation"

\* The admin commands by s are carried out: those whose arguments are a valid
\* address and, where a node is named, one whose record is present (absent,
\* for whitelist_node) return Ok, and none is refused for lack of authority.
Obeyed(s) ==
    /\ \A a \in AddressArgs : \A n \in ReputationArgs :
         /\ update_admin(s, a).err # "AdminOnlyOperation"
         /\ whitelist_node(s, a).err # "AdminOnlyOperation"
         /\ remove_node(s, a).err # "AdminOnlyOperation"
         /\ update_node_reputation(s, a, n).err # "AdminOnlyOperation"
         /\ update_min_reputation_threshold(s, n).err = OK
         /\ configure_treasury(s, a).err # "AdminOnlyOperation"
    /\ \A a \in Addrs : \A n \in ReputationArgs :
         /\ update_admin(s, a).err = OK
         /\ configure_treasury(s, a).err = OK
         /\ a \in DOMAIN WHITELISTED_NODES
            => remove_node(s, a).err = OK /\ update_node_reputation(s, a, n).err = OK
         /\ ~(a \in DOMAIN WHITELISTED_NODES) => whitelist_node(s, a).err = OK

\* In every state exactly one identity passes the admin gate, it is obeyed
\* and every other identity is refused; after an update_admin from A to a
\* different B that identity is B.
C25_SoleAdministrator ==
    /\ Cardinality({s \in Addrs : validate_admin(s)}) = 1
    /\ \A s \in Addrs : IF validate_admin(s) THEN Obeyed(s) ELSE Refused(s)
    /\ (last.op = "update_admin" /\ last.arg.new_admin # last.sender)
       => /\ validate_admin(last.arg.new_admin)
          /\ Obeyed(last.arg.new_admin)
          /\ Refused(last.sender)

\* The administrator changes only in a step that commits an update_admin
\* sent by the administrator of the time, and becomes the identity it names.
C25_OnlyUpdateAdminChanges ==
    CONFIG'.admin # CONFIG.admin
    => /\ Committed("update_admin", CONFIG.admin)
       /\ last'.arg.new_admin = CONFIG'.admin

\* C25: after a successful update_admin from administrator A to a different
\* identity B, B is the sole administrator: every admin command by A fails
\* with AdminOnlyOperation and the admin commands by B succeed; in every
\* reachable state exactly one identity is administrator, and only a
\* successful update_admin by the current administrator changes it.
C25_AdminHandOver == [](C25_SoleAdministrator) /\ [][C25_OnlyUpdateAdminChanges]_vars

\* The administration has just passed from ADMIN to USER, who has a Node
\* record: USER's commands on it succeed and ADMIN's are refused.
C25_Witness ==
    /\ last.op = "update_admin"
    /\ last.sender = ADMIN
    /\ last.arg.new_admin = USER
    /\ CONFIG.admin = USER
    /\ Has(WHITELISTED_NODES, USER)
    /\ update_node_reputation(USER, USER, 1).err = OK
    /\ update_node_reputation(ADMIN, USER, 1).err = "AdminOnlyOperation"


(***************************************************************************)
(* Ledgers too long to be built call by call within MaxSteps: the state    *)
(* after instantiate, register_node by USER and n accepted store_proof     *)
(* calls by USER in block 0, written out as those calls leave it.          *)
(***************************************************************************)
MaxSeeded == 36
SeedSizes == {0, 12, MaxSeeded}

\* The i-th accepted submission: distinct hashes, mostly worker W1 and
\* gateway G1, some with two batches, some naming one gateway twice.
SeedHash(i) == IF i = 0 THEN H1 ELSE << <<"a", 64 - i>>, <<"b", i>> >>
SeedMsg(i) ==
    StoreProofMsg(IF i % 9 = 8 THEN W2 ELSE W1,
                  SeedHash(i),
                  <<i, i + 1>>,
                  CASE i % 9 = 4 -> <<G2>>
                    [] i % 9 = 7 -> <<G1, G1>>
                    [] i % 3 = 0 -> <<G1, G2>>
                    [] OTHER -> <<G1>>,
                  NoMetadata)
SeedProof(i) ==
    [id |-> i,
     worker_did |-> SeedMsg(i).worker_did,
     data_hash |-> SeedMsg(i).data_hash,
     tw_start |-> SeedMsg(i).tw_start,
     tw_end |-> SeedMsg(i).tw_end,
     batch_metadata |-> SeedMsg(i).batch_metadata,
     metadata_json |-> SeedMsg(i).metadata_json,
     stored_at |-> BlockTime(0),
     stored_by |-> USER]

InitListing ==
    \E n \in SeedSizes :
      /\ CONFIG = [instantiate(InstantiateMsg(TRUE, 1, 2)) EXCEPT !.proof_count = n]
      /\ WHITELISTED_NODES =
           Save(EmptyMap, USER,
                [address |-> USER, reputation |-> 0, added_at |-> BlockTime(0),
                 deposit |-> 100, tier |-> 1, proof_count |-> 0,
                 disputed_proofs |-> 0, last_updated |-> BlockTime(0)])
      /\ UNLOCKING_DEPOSITS = EmptyMap
      /\ proofs = [i \in 0..(n - 1) |-> SeedProof(i)]
      /\ proofs__worker = {<<SeedProof(i).worker_did, i>> : i \in 0..(n - 1)}
      /\ PROOF_BY_HASH =
           [h \in {SeedHash(i) : i \in 0..(n - 1)} |->
              CHOOSE i \in 0..(n - 1) : SeedHash(i) = h]
      /\ GATEWAY_PROOFS =
           UNION {gateway_index_keys(SeedProof(i).batch_metadata, i) : i \in 0..(n - 1)}
      /\ height = 0
      /\ last = (IF n = 0
                 THEN Result("register_node", USER, OK,
                             [funds |-> <<Coin(NATIVE_DENOM, 100)>>,
                              q |-> Staked(<<Coin(NATIVE_DENOM, 1000)>>)],
                             [native_stake_verified |-> 1000, tier_assigned |-> 1,
                              deposit_locked |-> 100])
                 ELSE Result("store_proof", USER, OK, SeedMsg(n - 1),
                             [proof_id |-> n - 1,
                              batch_count |-> Len(SeedMsg(n - 1).batch_metadata),
                              gateway_dids |->
                                [i \in 1..Len(SeedMsg(n - 1).batch_metadata) |->
                                   SeedMsg(n - 1).batch_metadata[i].gateway_did]]))
      /\ steps = 0
      /\ bank = Received(NoTransfers, USER, 100)

\* The calls made on the seeded ledgers: USER stores further proofs and
\* unlocks and claims its deposit; the admin commands, register_node,
\* add_deposit and verify_proof are called by USER too and fail.
ListingInputs ==
    [senders |-> {USER},
     admins |-> {BadAddr},
     targets |-> {USER},
     treasuries |-> {BadAddr},
     reputations |-> {-1},
     thresholds |-> {1},
     submissions |-> {StoreProofMsg(W1, H2, <<1, 2>>, <<G2>>, NoMetadata),
                      StoreProofMsg(W2, H3, <<2, 1>>, <<G2, G1>>, NoMetadata)},
     hashes |-> {HShort},
     register_funds |-> {<<Coin(NATIVE_DENOM, 100)>>},
     add_funds |-> {<<>>},
     stakes |-> {Staked(<<Coin(NATIVE_DENOM, 1000)>>)}]
NextListing == NextWith(ListingInputs)
SpecListing == InitListing /\ [][NextListing]_vars

\* The cursors and limits the listings are asked with.
Cursors == {None, 0, 3, 11, MAX_LIMIT, MaxSeeded - 1, MaxSeeded + 4}
Limits == {None, 0, 1, DEFAULT_LIMIT, MAX_LIMIT - 1, MAX_LIMIT, MAX_LIMIT + 1, 50}

\* The three listings under one name: kind "all", "worker" or "gateway".
Listings ==
    {<<"all", <<>>>>} \cup ({"worker", "gateway"} \X {W1, W2, G1, G2, WUnregistered})
Listing(k, start_after, limit) ==
    CASE k[1] = "all" -> query_proofs(start_after, limit)
      [] k[1] = "worker" -> query_proofs_by_worker(k[2], start_after, limit)
      [] k[1] = "gateway" -> query_proofs_by_gateway(k[2], start_after, limit)

\* The ids of the stored proofs a listing is about.
Matching(k) ==
    CASE k[1] = "all" -> DOMAIN proofs
      [] k[1] = "worker" -> {i \in DOMAIN proofs : proofs[i].worker_did = k[2]}
      [] k[1] = "gateway" ->
           {i \in DOMAIN proofs :
              \E b \in 1..Len(proofs[i].batch_metadata) :
                proofs[i].batch_metadata[b].gateway_did = k[2]}

\* The pages obtained by calling a listing again and again, each time with
\* the last returned id as cursor, until a page comes back empty.
RECURSIVE Pages(_, _, _)
Pages(k, start_after, limit) ==
    LET page == Listing(k, start_after, limit).proofs IN
    IF page = <<>> THEN <<>>
    ELSE [i \in 1..Len(page) |-> page[i].id] \o Pages(k, page[Len(page)].id, limit)

\* C26: each paginated listing (all proofs, by worker, by gateway) returns
\* proofs in strictly ascending id order, only matching proofs with ids
\* strictly greater than the start_after cursor, at most min(limit, 30) of
\* them and at most 10 when no limit is given, and skips no matching proof
\* between the cursor and the last returned id (the page is short only when
\* the matching proofs are exhausted); repeated calls with the last returned
\* id as the next cursor enumerate every matching proof exactly once.
C26_Pagination ==
    \A k \in Listings :
      /\ \A c \in Cursors : \A l \in Limits :
           LET r == Listing(k, c, l)
               after == {i \in Matching(k) : c = None \/ i > c}
               cap == IF l = None THEN 10 ELSE IF l <= 30 THEN l ELSE 30
           IN /\ r.ok
              /\ \A i \in 1..Len(r.proofs) :
                   /\ r.proofs[i].id \in after
                   /\ r.proofs[i] = ProofResponse(proofs[r.proofs[i].id])
                   /\ i > 1 => r.proofs[i - 1].id < r.proofs[i].id
              /\ Len(r.proofs) <= cap
              /\ Len(r.proofs) = cap \/ Len(r.proofs) = Cardinality(after)
              /\ \A x \in after :
                   (r.proofs # <<>> /\ x <= r.proofs[Len(r.proofs)].id)
                   => \E i \in 1..Len(r.proofs) : r.proofs[i].id = x
      /\ \A l \in {None, 7, MAX_LIMIT + 1} :
           LET ids == Pages(k, None, l) IN
           /\ {ids[i] : i \in 1..Len(ids)} = Matching(k)
           /\ Len(ids) = Cardinality(Matching(k))

\* More than 30 proofs are stored, more than 30 of them by one worker and
\* more than 30 through one gateway, a further proof has just been stored,
\* and the page sizes 10 and 30 are reached.
C26_Witness ==
    /\ last.op = "store_proof"
    /\ last.info.proof_id >= MAX_LIMIT + 1
    /\ Cardinality(Matching(<<"worker", W1>>)) > MAX_LIMIT
    /\ Cardinality(Matching(<<"gateway", G1>>)) > MAX_LIMIT
    /\ Len(query_proofs(None, None).proofs) = 10
    /\ Len(query_proofs_by_worker(W1, 0, 50).proofs) = 30
    /\ Len(query_proofs_by_gateway(G1, None, MAX_LIMIT + 1).proofs) = 30
    /\ Len(query_proofs_by_gateway(G2, MAX_LIMIT, None).proofs) \in 1..9


\* Time windows with start > end, start = end and start < end.
Windows == {<<2, 1>>, <<5, 5>>, <<0, 0>>, <<1, 2>>, <<0, 9>>}

\* The submission m with its time window replaced.
WithWindow(m, tw) == [m EXCEPT !.tw_start = tw[1], !.tw_end = tw[2]]

\* C27: the outcome of store_proof does not depend on the time window: in the
\* same state and with the same other fields, a submission with start > end,
\* start = end or start < end is accepted or rejected identically (the same
\* error, the same proof id and the same writes apart from the window of the
\* new proof), and an accepted proof stores the submitted start and end
\* unchanged.
C27_WindowIrrelevant ==
    /\ \A s \in Addrs : \A m \in Submissions : \A tw \in Windows :
         LET r == store_proof(s, m)
             rw == store_proof(s, WithWindow(m, tw))
         IN /\ rw.err = r.err
            /\ rw.info = r.info
            /\ rw.CONFIG = r.CONFIG
            /\ rw.proofs__worker = r.proofs__worker
            /\ rw.PROOF_BY_HASH = r.PROOF_BY_HASH
            /\ rw.GATEWAY_PROOFS = r.GATEWAY_PROOFS
            /\ DOMAIN rw.proofs = DOMAIN r.proofs
            /\ r.err # OK => rw.proofs = r.proofs
            /\ r.err = OK
               => /\ rw.proofs[rw.info.proof_id]
                       = [r.proofs[r.info.proof_id] EXCEPT !.tw_start = tw[1],
                                                           !.tw_end = tw[2]]
                  /\ \A id \in DOMAIN proofs : rw.proofs[id] = r.proofs[id]
    /\ last.op = "store_proof"
       => /\ proofs[last.info.proof_id].tw_start = last.arg.tw_start
          /\ proofs[last.info.proof_id].tw_end = last.arg.tw_end

\* A proof whose window starts after it ends has just been stored, next to
\* one whose window is in order, and its submitter can store another.
C27_Witness ==
    /\ last.op = "store_proof"
    /\ last.arg.tw_start > last.arg.tw_end
    /\ proofs[last.info.proof_id].tw_start > proofs[last.info.proof_id].tw_end
    /\ \E id \in DOMAIN proofs : proofs[id].tw_start < proofs[id].tw_end
    /\ \E m \in Submissions : \A tw \in Windows :
         store_proof(last.sender, WithWindow(m, tw)).err = OK


\* A participant without a Node record whose pending UnlockingDeposit is
\* still there: get-node-info reports the record's amount and release height
\* for it, and its claim is answered as that of any participant: refused
\* before the release height, paid in full from then on.
C28_PendingSurvivesRemoval ==
    \A a \in Addrs : \A q \in StakeAnswers :
      (~(a \in DOMAIN WHITELISTED_NODES) /\ a \in DOMAIN UNLOCKING_DEPOSITS)
      => /\ node_info(a, q).ok
         /\ ~node_info(a, q).is_whitelisted
         /\ node_info(a, q).unlocking_deposit_amount = UNLOCKING_DEPOSITS[a].amount
         /\ node_info(a, q).unlocking_deposit_release_at_block
              = UNLOCKING_DEPOSITS[a].release_at_block
         /\ height < UNLOCKING_DEPOSITS[a].release_at_block
            => claim_unlocked_deposit(a).err = "DepositNotYetUnlocked"
         /\ height >= UNLOCKING_DEPOSITS[a].release_at_block
            => /\ claim_unlocked_deposit(a).err = OK
               /\ claim_unlocked_deposit(a).info.messages
                    = <<[to_address |-> a, denom |-> NATIVE_DENOM,
                         amount |-> UNLOCKING_DEPOSITS[a].amount]>>

\* A step that commits remove_node deletes the Node record it names and
\* nothing else: the other Node records, every UnlockingDeposit, the
\* configuration and the ledger stay as they were.
C28_RemovesNodeOnly ==
    (steps' = steps + 1 /\ height' = height /\ last'.op = "remove_node")
    => /\ last'.sender = CONFIG.admin
       /\ last'.arg.node_address \in DOMAIN WHITELISTED_NODES
       /\ DOMAIN WHITELISTED_NODES' = DOMAIN WHITELISTED_NODES \ {last'.arg.node_address}
       /\ \A b \in DOMAIN WHITELISTED_NODES' : WHITELISTED_NODES'[b] = WHITELISTED_NODES[b]
       /\ UNLOCKING_DEPOSITS' = UNLOCKING_DEPOSITS
       /\ UNCHANGED <<CONFIG, proofs, proofs__worker, PROOF_BY_HASH, GATEWAY_PROOFS>>

\* C28: remove_node by the administrator deletes only the Node record: a
\* pending UnlockingDeposit of the removed participant is left intact with
\* the same amount and release height, get-node-info still reports it for the
\* identifier that now has no Node record, and the participant can still
\* claim it once the release height is reached.
C28_RemoveNodeFrame == [](C28_PendingSurvivesRemoval) /\ [][C28_RemovesNodeOnly]_vars

\* The administrator has just removed a node whose deposit is unlocking: the
\* record is still pending with its amount, get-node-info reports it, and the
\* release height is reached so that the claim would be paid.
C28_Witness ==
    /\ last.op = "remove_node"
    /\ ~(last.arg.node_address \in DOMAIN WHITELISTED_NODES)
    /\ last.arg.node_address \in DOMAIN UNLOCKING_DEPOSITS
    /\ UNLOCKING_DEPOSITS[last.arg.node_address].amount > 0
    /\ node_info(last.arg.node_address, DelegationsFail).unlocking_deposit_amount
         = UNLOCKING_DEPOSITS[last.arg.node_address].amount
    /\ claim_unlocked_deposit(last.arg.node_address).err = OK


\* What register_node writes when it succeeds, in the current state:
\* reputation, proof_count and disputed_proofs 0 whatever the record held,
\* added_at that of the record that was there and otherwise the block time.
C29_RegistrationResets ==
    \A s \in Addrs : \A f \in RegistrationFunds : \A q \in OracleStakes :
      LET r == register_node(s, f, q) IN
      r.err = OK
      => /\ r.WHITELISTED_NODES[s].reputation = 0
         /\ r.WHITELISTED_NODES[s].proof_count = 0
         /\ r.WHITELISTED_NODES[s].disputed_proofs = 0
         /\ s \in DOMAIN WHITELISTED_NODES
            => /\ WHITELISTED_NODES[s].tier = 0
               /\ r.WHITELISTED_NODES[s].added_at = WHITELISTED_NODES[s].added_at
         /\ ~(s \in DOMAIN WHITELISTED_NODES)
            => r.WHITELISTED_NODES[s].added_at = BlockTime(height)

\* Right after a registration the node has reputation 0, and with a minimum
\* reputation threshold above 0 every submission by it is refused for its
\* reputation.
C29_FreshNodeBelowThreshold ==
    last.op = "register_node"
    => /\ WHITELISTED_NODES[last.sender].reputation = 0
       /\ WHITELISTED_NODES[last.sender].proof_count = 0
       /\ WHITELISTED_NODES[last.sender].disputed_proofs = 0
       /\ CONFIG.min_reputation_threshold > 0
          => \A m \in Submissions :
               store_proof(last.sender, m).err = "InsufficientNodeReputation"

\* The reputation of a node that stays changes only by an
\* update_node_reputation of the administrator, or to 0 by the node's own
\* register_node.
C29_OnlyAdminRaises ==
    \A a \in Addrs :
      (/\ a \in DOMAIN WHITELISTED_NODES
       /\ a \in DOMAIN WHITELISTED_NODES'
       /\ WHITELISTED_NODES'[a].reputation # WHITELISTED_NODES[a].reputation)
      => \/ /\ Committed("update_node_reputation", CONFIG.admin)
            /\ last'.arg.node_address = a
         \/ /\ Committed("register_node", a)
            /\ WHITELISTED_NODES'[a].reputation = 0

C30_ProofCountTracksStores ==
    /\ (last.op = "store_proof" /\ last.sender \in DOMAIN WHITELISTED_NODES)
       => WHITELISTED_NODES[last.sender].proof_count >= 1
    /\ \A a \in DOMAIN WHITELISTED_NODES :
         WHITELISTED_NODES[a].proof_count
           <= Cardinality({id \in DOMAIN proofs : proofs[id].stored_by = a})


\* The content hashes verify_proof is asked about.
VerifiedHashes == {H1, H2, H3, HShort, HNotHex, HEmpty}

\* What verify_proof answers in the current state: Ok with the id of the
\* proof holding the hash exactly when the caller passes the eligibility gate
\* and the hash is in the ledger, ProofNotFound for an eligible caller
\* otherwise, and the gate's error for every other caller.
C31_VerifyAnswers ==
    \A s \in Addrs : \A h \in VerifiedHashes :
      LET r == verify_proof(s, h) IN
      /\ r.err = OK <=> (Eligible(s) /\ StoredWithHash(h) # {})
      /\ r.err = OK => StoredWithHash(h) = {r.info.proof_id}
      /\ (Eligible(s) /\ StoredWithHash(h) = {}) => r.err = "ProofNotFound"
      /\ ~Eligible(s) => r.err \in {"NodeNotWhitelisted", "InsufficientNodeReputation",
                                    "NodeTierNotOperational"}

\* A step in which verify_proof answers Ok changes no persistent state.
C31_VerifyWritesNothing ==
    (steps' = steps + 1 /\ height' = height /\ last'.op = "verify_proof")
    => UNCHANGED <<CONFIG, WHITELISTED_NODES, UNLOCKING_DEPOSITS, proofs, proofs__worker,
                   PROOF_BY_HASH, GATEWAY_PROOFS>>

\* C31: verify_proof is gated and read-only: it succeeds, reporting the
\* proof's id, if and only if the caller passes the eligibility gate and the
\* given content hash is in the ledger (ProofNotFound otherwise for an
\* eligible caller), and in every case it leaves all persistent state
\* unchanged.
C31_VerifyProof == [](C31_VerifyAnswers) /\ [][C31_VerifyWritesNothing]_vars

\* A node whose deposit is unlocking has just verified a stored proof, and an
\* unknown hash would be answered with ProofNotFound.
C31_Witness ==
    /\ last.op = "verify_proof"
    /\ last.info.proof_id \in DOMAIN proofs
    /\ proofs[last.info.proof_id].data_hash = last.arg.data_hash
    /\ last.sender \in DOMAIN UNLOCKING_DEPOSITS
    /\ verify_proof(last.sender, H3).err = "ProofNotFound"
    /\ \E s \in Addrs : ~Eligible(s) /\ verify_proof(s, last.arg.data_hash).err # OK


\* C32: in every reachable state a participant that has a pending
\* UnlockingDeposit has active deposit 0 in its Node record, if it has one:
\* active collateral and a pending withdrawal never coexist.
C32_NoActiveDepositWhilePending ==
    \A a \in DOMAIN UNLOCKING_DEPOSITS :
      a \in DOMAIN WHITELISTED_NODES => WHITELISTED_NODES[a].deposit = 0


(***************************************************************************)
(* Accounting of the deposit denomination.                                 *)
(***************************************************************************)
RECURSIVE SumOf(_, _)
SumOf(f, keys) ==
    IF keys = {} THEN 0
    ELSE LET k == CHOOSE x \in keys : TRUE IN f[k] + SumOf(f, keys \ {k})

\* What the contract holds: everything attached to calls that returned Ok
\* minus everything its claims have sent out.
ContractBalance == SumOf(bank.received, Addrs) - SumOf(bank.paid, Addrs)
ActiveDeposits ==
    SumOf([a \in DOMAIN WHITELISTED_NODES |-> WHITELISTED_NODES[a].deposit],
          DOMAIN WHITELISTED_NODES)
PendingDeposits ==
    SumOf([a \in DOMAIN UNLOCKING_DEPOSITS |-> UNLOCKING_DEPOSITS[a].amount],
          DOMAIN UNLOCKING_DEPOSITS)

\* C33: funds conservation. In every reachable state the coins of the deposit
\* denomination attached to successful register_node and add_deposit calls,
\* minus the coins paid out by successful claims, equal the sum of the nodes'
\* active deposits plus the sum of the pending UnlockingDeposit amounts.
C33_FundsConserved == ContractBalance = ActiveDeposits + PendingDeposits


\* C34: no over-payout. For every participant, in every reachable state, what
\* its successful claims have paid it, plus what its Node and its
\* UnlockingDeposit still record, is at most what it attached in the deposit
\* denomination to its own successful register_node and add_deposit calls; so
\* the claims never pay a participant more than it deposited, and no deposit
\* is paid twice.
C34_NoOverPayout ==
    \A a \in Addrs :
      LET active == IF Has(WHITELISTED_NODES, a) THEN WHITELISTED_NODES[a].deposit ELSE 0
          pending == IF Has(UNLOCKING_DEPOSITS, a) THEN UNLOCKING_DEPOSITS[a].amount ELSE 0
      IN /\ bank.paid[a] <= bank.received[a]
         /\ bank.paid[a] + active + pending <= bank.received[a]

\* A participant has claimed a deposit and then deposited again.
C34_Witness ==
    /\ bank.paid[USER] > 0
    /\ bank.received[USER] > bank.paid[USER]
    /\ last.op = "add_deposit"
    /\ last.sender = USER


\* C35: a tier-0 node (whitelisted, not yet registered) always has active
\* deposit 0, and add_deposit and unlock_deposit return Ok only for senders
\* whose Node has a tier in 1..3, so no UnlockingDeposit is created from tier 0.
C35_TierZeroHoldsNothing ==
    \A a \in DOMAIN WHITELISTED_NODES :
      WHITELISTED_NODES[a].tier = 0 =>
        /\ WHITELISTED_NODES[a].deposit = 0
        /\ \A funds \in DepositInputs.add_funds : add_deposit(a, funds).err # OK
        /\ unlock_deposit(a).err # OK


\* Every tier is in 0..3, and a Node with a tier in 1..3 is refused every
\* registration, whatever stake the oracle reports and whatever is attached.
C36_TierRange ==
    \A a \in DOMAIN WHITELISTED_NODES :
      /\ WHITELISTED_NODES[a].tier \in 0..3
      /\ WHITELISTED_NODES[a].tier \in 1..3 =>
           \A funds \in TierInputs.register_funds, q \in TierInputs.stakes :
             /\ register_node(a, funds, q).err = "CustomError"
             /\ register_node(a, funds, q).info.message = "Node already registered"

\* A step leaves the tier of every Node with a tier in 1..3 as it is, unless
\* the step is the administrator's remove_node of that Node.
C36_TierKept ==
    \A a \in DOMAIN WHITELISTED_NODES :
      WHITELISTED_NODES[a].tier \in 1..3 =>
        IF a \in DOMAIN WHITELISTED_NODES'
        THEN WHITELISTED_NODES'[a].tier = WHITELISTED_NODES[a].tier
        ELSE /\ Committed("remove_node", CONFIG.admin)
             /\ last'.arg.node_address = a

\* C36: tier stability. Every Node's tier is in {0,1,2,3}; a tier in 1..3 is
\* kept through every add_deposit, unlock_deposit, claim, store_proof,
\* reputation update and change of the reported stake, and the Node loses it
\* only when the administrator removes the Node.
C36_TierStability == [](C36_TierRange) /\ [][C36_TierKept]_vars

\* A tier-3 node has unlocked its deposit and still has tier 3.
C36_Witness ==
    /\ Has(WHITELISTED_NODES, USER)
    /\ WHITELISTED_NODES[USER].tier = 3
    /\ WHITELISTED_NODES[USER].deposit = 0
    /\ last.op = "unlock_deposit"


\* A pending UnlockingDeposit is released at most one unlock period after the
\* current block, and once the block height has reached its release height the
\* owner's claim returns Ok, pays the recorded amount to the owner and removes
\* the record, whatever has happened to the owner's Node meanwhile.
C37_ClaimableAtRelease ==
    \A a \in DOMAIN UNLOCKING_DEPOSITS :
      LET u == UNLOCKING_DEPOSITS[a]
          r == claim_unlocked_deposit(a)
      IN /\ u.owner = a
         /\ u.release_at_block <= height + CONFIG.deposit_unlock_period_blocks
         /\ height >= u.release_at_block
            => /\ r.err = OK
               /\ r.info.claimed_amount = u.amount
               /\ r.info.messages[1].to_address = a
               /\ r.info.messages[1].amount = u.amount
               /\ ~Has(r.UNLOCKING_DEPOSITS, a)

\* No step by anyone changes the amount or the release height of a pending
\* UnlockingDeposit or the unlock period, and only the owner's own successful
\* claim removes the record.
C37_RecordFixed ==
    /\ CONFIG'.deposit_unlock_period_blocks = CONFIG.deposit_unlock_period_blocks
    /\ \A a \in DOMAIN UNLOCKING_DEPOSITS :
         IF a \in DOMAIN UNLOCKING_DEPOSITS'
         THEN /\ UNLOCKING_DEPOSITS'[a].amount = UNLOCKING_DEPOSITS[a].amount
              /\ UNLOCKING_DEPOSITS'[a].release_at_block
                   = UNLOCKING_DEPOSITS[a].release_at_block
         ELSE /\ last'.op = "claim_unlocked_deposit"
              /\ last'.sender = a
              /\ bank'.paid[a] = bank.paid[a] + UNLOCKING_DEPOSITS[a].amount

\* C37: once an UnlockingDeposit exists it can always eventually be claimed.
\* No admin or node command removes the record, changes its amount or
\* postpones its release height (not remove_node, not a reputation or
\* threshold change, not a registration), and whenever the block height has
\* reached the release height a claim by the owner succeeds.
C37_AlwaysClaimable == [](C37_ClaimableAtRelease) /\ [][C37_RecordFixed]_vars

\* The release height of a pending deposit has been reached after one block,
\* and the administrator has just made its owner ineligible.
C37_Witness ==
    /\ Has(UNLOCKING_DEPOSITS, USER)
    /\ CONFIG.deposit_unlock_period_blocks = 1
    /\ height >= UNLOCKING_DEPOSITS[USER].release_at_block
    /\ validate_node(USER) = "InsufficientNodeReputation"
    /\ last.op = "update_min_reputation_threshold"


\* The commands a node issues for itself.
NodeCommands ==
    {"register_node", "add_deposit", "unlock_deposit", "claim_unlocked_deposit",
     "store_proof", "verify_proof"}

\* C38: isolation between participants. A node command (register_node,
\* add_deposit, unlock_deposit, claim_unlocked_deposit, store_proof,
\* verify_proof) that participant A issues never creates, changes or removes
\* the Node or the UnlockingDeposit of another participant B.
C38_OthersUntouched ==
    (steps' = steps + 1 /\ height' = height /\ last'.op \in NodeCommands)
    => \A b \in Addrs \ {last'.sender} :
         /\ Has(WHITELISTED_NODES', b) = Has(WHITELISTED_NODES, b)
         /\ Has(WHITELISTED_NODES, b) => WHITELISTED_NODES'[b] = WHITELISTED_NODES[b]
         /\ Has(UNLOCKING_DEPOSITS', b) = Has(UNLOCKING_DEPOSITS, b)
         /\ Has(UNLOCKING_DEPOSITS, b) => UNLOCKING_DEPOSITS'[b] = UNLOCKING_DEPOSITS[b]
         /\ bank'.received[b] = bank.received[b]
         /\ bank'.paid[b] = bank.paid[b]

C38_Isolation == [][C38_OthersUntouched]_vars

\* One participant has unlocked its deposit while another participant's
\* Node holds a deposit of its own.
C38_Witness ==
    /\ last.op = "unlock_deposit"
    /\ last.sender = ADMIN
    /\ Has(UNLOCKING_DEPOSITS, ADMIN)
    /\ Has(WHITELISTED_NODES, USER)
    /\ WHITELISTED_NODES[USER].deposit > 0
    /\ ~Has(UNLOCKING_DEPOSITS, USER)


\* C39: configuration frame. No node command changes the administrator, the
\* treasury, the tier stake thresholds, the tier deposit requirements, the
\* unlock period, the max batch count or the minimum reputation threshold; the
\* only configuration field a node command changes is the proof counter, which
\* a successful store_proof increases by exactly 1, and no step of anyone
\* decreases the proof counter.
C39_NodeCommandsKeepConfig ==
    /\ CONFIG'.proof_count >= CONFIG.proof_count
    /\ (steps' = steps + 1 /\ height' = height /\ last'.op \in NodeCommands)
       => CONFIG' = [CONFIG EXCEPT !.proof_count =
                        IF last'.op = "store_proof" THEN @ + 1 ELSE @]

C39_ConfigurationFrame == [][C39_NodeCommandsKeepConfig]_vars

\* A proof has been stored under a configuration the administrator had changed.
C39_Witness ==
    /\ last.op = "store_proof"
    /\ CONFIG.proof_count = 1
    /\ CONFIG.min_reputation_threshold = 1


(***************************************************************************)
(* The deposit lifecycle under the longest unlock period a u64 holds.      *)
(***************************************************************************)
InitOverflow == InitWith({InstantiateMsg(TRUE, U64_MAX, 2)})
NextOverflow == NextWith(DepositInputs)
SpecOverflow == InitOverflow /\ [][NextOverflow]_vars

\* C40: the release height that unlock_deposit records is never earlier (as a
\* u64) than the block height at which unlock_deposit was called: the sum of
\* the current height and the unlock period never wraps to a smaller value
\* that makes the deposit claimable at once.
C40_ReleaseNotEarlier ==
    last.op = "unlock_deposit"
    => ~u64_lt(last.info.release_at_block, last.arg.height)

====
